---------------------------- MODULE Spec2Model ----------------------------
(***************************************************************************)
(* A model of the humsana daemon's decision core: the interlock            *)
(* (src/humsana/interlock.py), the activity tracker                        *)
(* (src/humsana/activity_tracker.py), the audit log (src/humsana/audit.py),*)
(* the configuration (src/humsana/config.py) and the stress average read   *)
(* from the local database (src/humsana/local_db.py).                      *)
(*                                                                         *)
(* Representation.  A Python str is a sequence of one-character strings.   *)
(* An Optional value is a set: {} is None, {x} is the value x.  Wall-clock *)
(* time is a number of seconds; a stress level is a number of thousandths  *)
(* (round(x, 3) * 1000); uptime_hours in a result is a number of           *)
(* hundredths of an hour (round(x, 2) * 100).                              *)
(***************************************************************************)
EXTENDS Integers, Sequences, FiniteSets, TLC

VARIABLES
    config,                   \* HumsanaConfig loaded by HumsanaInterlock.__init__
    now,                      \* the wall clock (datetime.now()), in seconds
    heartbeats,               \* ActivityTracker.heartbeats
    db,                       \* rows of analysis_results: timestamp, stress_level
    entries,                  \* AuditLogger.entries
    pending_override_reason,  \* HumsanaInterlock._pending_override_reason
    shell_calls,              \* number of subprocess.run calls made so far
    result,                   \* the value returned by the last call
    analysis_history,         \* SignalAnalyzer.analysis_history
    collector,                \* SignalCollector's fields and its listener threads
    notifier,                 \* NotificationManager's token, last_state, last_slack_status
    slack,                    \* the user's Slack profile as last set, and whether a call failed
    last_state                \* HumsanaDaemon._last_state

vars == <<config, now, heartbeats, db, entries, pending_override_reason,
          shell_calls, result, analysis_history, collector, notifier, slack,
          last_state>>

\* the state of the daemon process (cli.py), which the interlock leaves alone
daemon == <<analysis_history, collector, notifier, slack, last_state>>

----------------------------------------------------------------------------
(* Python values *)

None == {}

Some(x) == {x}

\* Python truthiness of an Optional[str]: None and "" are falsy.
Truthy(opt) == \E s \in opt : Len(s) > 0

Min(a, b) == IF a < b THEN a ELSE b

Max(a, b) == IF a > b THEN a ELSE b

UPPERCASE == <<"A", "B", "C", "D", "E", "F", "G", "H", "I", "J", "K", "L", "M",
               "N", "O", "P", "Q", "R", "S", "T", "U", "V", "W", "X", "Y", "Z">>

LOWERCASE == <<"a", "b", "c", "d", "e", "f", "g", "h", "i", "j", "k", "l", "m",
               "n", "o", "p", "q", "r", "s", "t", "u", "v", "w", "x", "y", "z">>

\* str.lower() on one character
lower_char(c) ==
    IF \E i \in DOMAIN UPPERCASE : UPPERCASE[i] = c
    THEN LOWERCASE[CHOOSE i \in DOMAIN UPPERCASE : UPPERCASE[i] = c]
    ELSE c

\* str.lower()
lower(s) == [i \in 1..Len(s) |-> lower_char(s[i])]

\* Python's `sub in s` on strings (the empty string is in every string)
str_in(sub, s) ==
    \E i \in 0..(Len(s) - Len(sub)) : SubSeq(s, i + 1, i + Len(sub)) = sub

\* the characters the regex class \s and str.strip() treat as whitespace
IsSpace(c) == c \in {" ", "\t", "\n"}

\* str.strip()
strip(s) ==
    IF \A i \in 1..Len(s) : IsSpace(s[i])
    THEN <<>>
    ELSE LET first == CHOOSE i \in 1..Len(s) :
                          /\ ~IsSpace(s[i])
                          /\ \A j \in 1..(i - 1) : IsSpace(s[j])
             last  == CHOOSE i \in 1..Len(s) :
                          /\ ~IsSpace(s[i])
                          /\ \A j \in (i + 1)..Len(s) : IsSpace(s[j])
         IN  SubSeq(s, first, last)

----------------------------------------------------------------------------
(* config.py *)

DEFAULT_DANGEROUS_COMMANDS == <<
    <<"r", "m", " ", "-", "r", "f">>,
    <<"D", "R", "O", "P", " ", "D", "A", "T", "A", "B", "A", "S", "E">>,
    <<"D", "R", "O", "P", " ", "T", "A", "B", "L", "E">>,
    <<"D", "E", "L", "E", "T", "E", " ", "F", "R", "O", "M">>,
    <<"g", "i", "t", " ", "p", "u", "s", "h", " ", "-", "-", "f", "o", "r", "c", "e">>,
    <<"g", "i", "t", " ", "p", "u", "s", "h", " ", "-", "f">>,
    <<"k", "u", "b", "e", "c", "t", "l", " ", "d", "e", "l", "e", "t", "e">>,
    <<"t", "e", "r", "r", "a", "f", "o", "r", "m", " ", "d", "e", "s", "t", "r", "o", "y">>,
    <<"d", "o", "c", "k", "e", "r", " ", "s", "y", "s", "t", "e", "m", " ", "p", "r", "u", "n", "e">>,
    <<"s", "u", "d", "o", " ", "r", "m">>,
    <<"d", "d", " ", "i", "f", "=">>,
    <<"m", "k", "f", "s">>,
    <<">", " ", "/", "d", "e", "v", "/", "s", "d">> >>

\* HumsanaConfig.fatigue_threshold's default
DEFAULT_FATIGUE_THRESHOLD == 70

\* HumsanaConfig.effective_execution_mode; is_pro is the license's validity
effective_execution_mode(cfg) ==
    IF cfg.execution_mode = "live" /\ ~cfg.is_pro
    THEN "dry_run"
    ELSE cfg.execution_mode

----------------------------------------------------------------------------
(* activity_tracker.py *)

BREAK_THRESHOLD_MINUTES == 60

HISTORY_HOURS == 24

\* the debounce of record_activity, in seconds
DEBOUNCE_SECONDS == 60

\* sorted(self.heartbeats, key=timestamp), as the sequence of timestamps
sorted_hbs(hbs) ==
    SortSeq([i \in 1..Len(hbs) |-> hbs[i].timestamp], LAMBDA a, b : a < b)

\* a cleanup that drops nothing
cleanup_old_heartbeats_keeping_all(hbs, t) ==
    hbs

\* ActivityTracker._cleanup_old_heartbeats at clock t
cleanup_old_heartbeats(hbs, t) ==
    SelectSeq(hbs, LAMBDA hb : hb.timestamp > t - HISTORY_HOURS * 3600)

\* record_activity without its debounce: every call records
record_activity_undebounced(hbs, t, source) ==
    cleanup_old_heartbeats(Append(hbs, [timestamp |-> t, source |-> source]), t)

\* ActivityTracker.record_activity at clock t: the heartbeats after the call
\* (skipped within DEBOUNCE_SECONDS of the last heartbeat; else appended and
\* saved, and _save_heartbeats cleans up first)
record_activity(hbs, t, source) ==
    IF /\ Len(hbs) > 0
       /\ t - hbs[Len(hbs)].timestamp < DEBOUNCE_SECONDS
    THEN hbs
    ELSE cleanup_old_heartbeats(Append(hbs, [timestamp |-> t, source |-> source]), t)

\* the uptime measured from the earliest heartbeat, whatever the gaps
get_cognitive_uptime_ignoring_breaks(hbs, t) ==
    IF Len(hbs) = 0
    THEN 0
    ELSE Max(0, t - sorted_hbs(hbs)[1])

\* the uptime with only gaps of more than BREAK_THRESHOLD_MINUTES as breaks
get_cognitive_uptime_strict_gap(hbs, t) ==
    IF Len(hbs) = 0
    THEN 0
    ELSE LET s      == sorted_hbs(hbs)
             breaks == {i \in 2..Len(s) :
                            s[i] - s[i - 1] > BREAK_THRESHOLD_MINUTES * 60}
             last_break_time ==
                 IF breaks = {}
                 THEN s[1]
                 ELSE s[CHOOSE i \in breaks : \A j \in breaks : j <= i]
         IN  Max(0, t - last_break_time)

\* ActivityTracker.get_cognitive_uptime_hours at clock t, in seconds:
\* the epoch start is the heartbeat after the most recent gap of at least
\* BREAK_THRESHOLD_MINUTES, else the earliest heartbeat
get_cognitive_uptime_seconds(hbs, t) ==
    IF Len(hbs) = 0
    THEN 0
    ELSE LET s      == sorted_hbs(hbs)
             breaks == {i \in 2..Len(s) :
                            s[i] - s[i - 1] >= BREAK_THRESHOLD_MINUTES * 60}
             last_break_time ==
                 IF breaks = {}
                 THEN s[1]
                 ELSE s[CHOOSE i \in breaks : \A j \in breaks : j <= i]
         IN  Max(0, t - last_break_time)

\* Python floats are IEEE 754 doubles: a positive double is a significand of
\* SIGNIFICAND_BITS binary digits (most significant first, the first one 1)
\* and an exponent, and stands for significand * 2^exponent; 0.0 has the
\* empty significand
SIGNIFICAND_BITS == 53

FloatZero == [significand |-> <<>>, exponent |-> 0]

\* n zero digits
zeros(n) == [i \in 1..n |-> 0]

\* the arithmetic on digit sequences works on groups of this many digits
LIMB_BITS == 8

\* the binary digits of the natural number n, most significant first
RECURSIVE bits_of(_)
bits_of(n) ==
    IF n = 0 THEN <<>> ELSE Append(bits_of(n \div 2), n % 2)

\* the natural number of a (short) sequence of binary digits
RECURSIVE nat_of(_)
nat_of(bits) ==
    IF bits = <<>>
    THEN 0
    ELSE 2 * nat_of(SubSeq(bits, 1, Len(bits) - 1)) + bits[Len(bits)]

\* the digits, with zeros in front to make k of them
pad(bits, k) == zeros(k - Len(bits)) \o bits

\* n as k digits
limb(n, k) == pad(bits_of(n), k)

\* the last k digits (all of them if there are fewer) and the digits before
last_bits(bits, k) == SubSeq(bits, Max(1, Len(bits) - k + 1), Len(bits))

front_bits(bits, k) == SubSeq(bits, 1, Len(bits) - k)

\* the digits from the first 1 on, given the positions of the digits 1
from_first_one(bits, ones) ==
    IF ones = {}
    THEN <<>>
    ELSE SubSeq(bits, CHOOSE i \in ones : \A j \in ones : i <= j, Len(bits))

\* the digits without leading zeros
strip_zeros(bits) ==
    from_first_one(bits, {i \in 1..Len(bits) : bits[i] = 1})

\* one step of the long division: the quotient so far, and x, the remainder
\* so far followed by the next k digits, divided by d
divide_limb(q, x, k, d) ==
    [q |-> q \o limb(x \div d, k), r |-> x % d]

\* long division of the digits by the natural number d: quotient digits and
\* remainder
RECURSIVE divide_bits(_, _)
divide_bits(bits, d) ==
    IF bits = <<>>
    THEN [q |-> <<>>, r |-> 0]
    ELSE LET k == Min(LIMB_BITS, Len(bits))
             p == divide_bits(front_bits(bits, k), d)
         IN  divide_limb(p.q, p.r * 2^k + nat_of(last_bits(bits, k)), k, d)

\* the digits of bits * c + carry, where x is the product of the last k
\* digits plus the carry
RECURSIVE times_limb(_, _, _, _)
times_limb(bits, c, x, k) ==
    LET front == front_bits(bits, k)
        n     == Min(LIMB_BITS, Len(front))
    IN  (IF front = <<>>
         THEN bits_of(x \div 2^k)
         ELSE times_limb(front, c, nat_of(last_bits(front, n)) * c + x \div 2^k, n))
            \o limb(x % 2^k, k)

\* the digits of bits * c
times_bits(bits, c) ==
    IF bits = <<>>
    THEN <<>>
    ELSE times_limb(bits, c,
                    nat_of(last_bits(bits, Min(LIMB_BITS, Len(bits)))) * c,
                    Min(LIMB_BITS, Len(bits)))

\* the digits of a + b + carry, where x is the sum of the last k digits of
\* both and the carry
RECURSIVE add_limb(_, _, _, _)
add_limb(a, b, x, k) ==
    LET fa == front_bits(a, k)
        fb == front_bits(b, k)
        n  == Min(LIMB_BITS, Max(Len(fa), Len(fb)))
    IN  (IF fa = <<>> /\ fb = <<>>
         THEN bits_of(x \div 2^k)
         ELSE add_limb(fa, fb,
                       nat_of(last_bits(fa, n)) + nat_of(last_bits(fb, n)) + x \div 2^k,
                       n))
            \o limb(x % 2^k, k)

\* the digits of a + b + carry, for non-empty a
add_bits(a, b, carry) ==
    add_limb(a, b,
             nat_of(last_bits(a, Min(LIMB_BITS, Max(Len(a), Len(b)))))
                 + nat_of(last_bits(b, Min(LIMB_BITS, Max(Len(a), Len(b))))) + carry,
             Min(LIMB_BITS, Max(Len(a), Len(b))))

\* the digits of the number plus one
increment(bits) == add_bits(bits, <<>>, 1)

\* the double of SIGNIFICAND_BITS digits or one more (then the last is 0)
renormalise(r, exponent) ==
    IF Len(r) > SIGNIFICAND_BITS
    THEN [significand |-> SubSeq(r, 1, SIGNIFICAND_BITS), exponent |-> exponent + 1]
    ELSE [significand |-> r, exponent |-> exponent]

\* the digits kept, rounded up or not
round_kept(kept, up, exponent) ==
    IF up
    THEN renormalise(increment(kept), exponent)
    ELSE [significand |-> kept, exponent |-> exponent]

\* round_to_double for digits s without leading zeros
round_stripped(s, exponent, inexact) ==
    IF Len(s) = 0 THEN FloatZero
    ELSE IF Len(s) <= SIGNIFICAND_BITS
    THEN [significand |-> s \o zeros(SIGNIFICAND_BITS - Len(s)),
          exponent    |-> exponent - (SIGNIFICAND_BITS - Len(s))]
    ELSE round_kept(SubSeq(s, 1, SIGNIFICAND_BITS),
                    /\ s[SIGNIFICAND_BITS + 1] = 1
                    /\ \/ inexact
                       \/ \E i \in (SIGNIFICAND_BITS + 2)..Len(s) : s[i] = 1
                       \/ s[SIGNIFICAND_BITS] = 1,
                    exponent + (Len(s) - SIGNIFICAND_BITS))

\* the double nearest to bits * 2^exponent (plus a positive amount below one
\* unit of the last digit when `inexact`), ties to even: the rounding of
\* every float operation. The first SIGNIFICAND_BITS digits are kept and
\* rounded up when the next digit is 1 and either something follows it or
\* the last kept digit is 1. An inexact value comes with more than
\* SIGNIFICAND_BITS + 1 digits.
round_to_double(bits, exponent, inexact) ==
    round_stripped(strip_zeros(bits), exponent, inexact)

\* float(n) of a natural number
float_of_int(n) == round_to_double(bits_of(n), 0, FALSE)

\* the double of a quotient with remainder
round_quotient(qr, exponent) ==
    round_to_double(qr.q, exponent, qr.r # 0)

\* x / d for a double x and a natural number d below 2^12 (the int is
\* converted exactly): the quotient is taken to 16 more digits, and rounded
float_div(x, d) ==
    round_quotient(divide_bits(x.significand \o zeros(16), d), x.exponent - 16)

\* x * c for a double x and a natural number c
float_mul(x, c) ==
    round_to_double(times_bits(x.significand, c), x.exponent, FALSE)

\* x + y for doubles x and y
float_add(x, y) ==
    IF x.significand = <<>> THEN y
    ELSE IF y.significand = <<>> THEN x
    ELSE round_to_double(
             add_bits(x.significand \o zeros(x.exponent - Min(x.exponent, y.exponent)),
                      y.significand \o zeros(y.exponent - Min(x.exponent, y.exponent)),
                      0),
             Min(x.exponent, y.exponent), FALSE)

\* int(x) for a double x below 2^31
float_trunc(x) ==
    IF Len(x.significand) + x.exponent <= 0
    THEN 0
    ELSE IF x.exponent >= 0
    THEN nat_of(x.significand \o zeros(x.exponent))
    ELSE nat_of(SubSeq(x.significand, 1, Len(x.significand) + x.exponent))

\* min(60, x) for a double x
min_60(x) ==
    IF float_trunc(x) < 60 THEN x ELSE float_of_int(60)

\* get_fatigue_level's arithmetic on the floats uptime (of get_cognitive_
\* uptime_hours: total_seconds() / 3600) and current_stress (thousandths / 1000)
fatigue_level_of(uptime_seconds, current_stress) ==
    LET uptime         == float_div(float_of_int(uptime_seconds), 3600)
        base_fatigue   == min_60(float_mul(float_div(uptime, 12), 60))
        stress_fatigue == float_mul(float_div(float_of_int(current_stress), 1000), 40)
        total          == float_trunc(float_add(base_fatigue, stress_fatigue))
    IN  Min(100, Max(0, total))

\* fatigue_level_of at the uptimes and stress levels the interlock's
\* sessions reach, evaluated once (f @@ <<>> is the function f, tabulated)
SessionFatigueLevels ==
    [x \in {0, 720, 6 * 3600, 6 * 3600 + 720} \X {0, 1000}
        |-> fatigue_level_of(x[1], x[2])] @@ <<>>

\* ActivityTracker.get_fatigue_level, with current_stress in thousandths
get_fatigue_level(hbs, t, current_stress) ==
    LET uptime == get_cognitive_uptime_seconds(hbs, t)
    IN  IF <<uptime, current_stress>> \in DOMAIN SessionFatigueLevels
        THEN SessionFatigueLevels[<<uptime, current_stress>>]
        ELSE fatigue_level_of(uptime, current_stress)

\* the category of ActivityTracker.get_fatigue_status
fatigue_category(fatigue) ==
    IF fatigue < 30 THEN "low"
    ELSE IF fatigue < 60 THEN "moderate"
    ELSE IF fatigue < 85 THEN "high"
    ELSE "critical"

\* ActivityTracker.get_fatigue_status; uptime_hours is round(uptime, 2)
get_fatigue_status(hbs, t, current_stress) ==
    LET fatigue == get_fatigue_level(hbs, t, current_stress)
        uptime  == get_cognitive_uptime_seconds(hbs, t)
    IN  [fatigue_level    |-> fatigue,
         fatigue_category |-> fatigue_category(fatigue),
         uptime_hours     |-> (uptime * 100 + 1800) \div 3600]

----------------------------------------------------------------------------
(* local_db.py *)

\* The WHERE clause of get_average_metrics compares the stored text
\* 'YYYY-MM-DDTHH:MM:SS.ffffff' (datetime.isoformat) with SQLite's
\* datetime('now', '-N minutes') = 'YYYY-MM-DD HH:MM:SS' as strings: the dates
\* decide, and on equal dates 'T' sorts after ' '.
timestamp_after(ts, cutoff) ==
    LET d1 == ts \div 86400
        d2 == cutoff \div 86400
    IN  d1 > d2 \/ d1 = d2

RECURSIVE sum_stress(_)
sum_stress(rows) ==
    IF rows = <<>> THEN 0 ELSE Head(rows).stress_level + sum_stress(Tail(rows))

\* LocalDatabase.get_average_metrics(minutes): AVG and COUNT over the rows the
\* WHERE clause selects, stress_level rounded to thousandths; the defaults
\* when no row is selected
get_average_metrics(rows, t, minutes) ==
    LET sel == SelectSeq(rows, LAMBDA r : timestamp_after(r.timestamp, t - minutes * 60))
        n   == Len(sel)
    IN  IF n > 0
        THEN [stress_level   |-> (2 * sum_stress(sel) + n) \div (2 * n),
              sample_count   |-> n,
              window_minutes |-> minutes]
        ELSE [stress_level   |-> 0,
              sample_count   |-> 0,
              window_minutes |-> minutes]

\* LocalDatabase.get_average_metrics(minutes)['stress_level'], in thousandths
get_average_stress(rows, t, minutes) ==
    get_average_metrics(rows, t, minutes).stress_level

\* HumsanaInterlock._get_current_stress
get_current_stress(rows, t) == get_average_stress(rows, t, 5)

----------------------------------------------------------------------------
(* audit.py *)

MAX_ENTRIES == 1000

\* _save_entries trimming with entries[:MAX_ENTRIES]: keeps the oldest
save_entries_keeping_oldest(es) ==
    IF Len(es) > MAX_ENTRIES
    THEN SubSeq(es, 1, MAX_ENTRIES)
    ELSE es

\* AuditLogger._save_entries: keep the most recent MAX_ENTRIES
save_entries(es) ==
    IF Len(es) > MAX_ENTRIES
    THEN SubSeq(es, Len(es) - MAX_ENTRIES + 1, Len(es))
    ELSE es

\* log_event skipping an event that repeats the last entry's event, command
\* and reason
log_event_dedup(es, event, t, command, status, outcome, mode, override_reason) ==
    IF /\ Len(es) > 0
       /\ es[Len(es)].event = event
       /\ es[Len(es)].command = command
       /\ es[Len(es)].override_reason = override_reason
    THEN es
    ELSE save_entries(Append(es,
             [event            |-> event,
              timestamp        |-> t,
              command          |-> command,
              fatigue_level    |-> status.fatigue_level,
              fatigue_category |-> status.fatigue_category,
              uptime_hours     |-> status.uptime_hours,
              override_reason  |-> override_reason,
              outcome          |-> outcome,
              mode             |-> mode]))

\* AuditLogger.log_event: the entry is appended and the log saved (the
\* webhook POST that follows changes no state of the program)
log_event(es, event, t, command, status, outcome, mode, override_reason) ==
    save_entries(Append(es,
        [event            |-> event,
         timestamp        |-> t,
         command          |-> command,
         fatigue_level    |-> status.fatigue_level,
         fatigue_category |-> status.fatigue_category,
         uptime_hours     |-> status.uptime_hours,
         override_reason  |-> override_reason,
         outcome          |-> outcome,
         mode             |-> mode]))

\* what requests.post does with the webhook: the POST is "delivered", or it
\* raises a requests exception ("failed"), or the 5 s timeout expires
\* ("timeout", requests.Timeout)
WebhookOutcomes == {"delivered", "failed", "timeout"}

\* what a log_event call's webhook POST can do: "none" when no webhook_url
\* is given (no POST is made)
Deliveries(webhook_url) ==
    IF Truthy(webhook_url) THEN WebhookOutcomes ELSE {"none"}

\* _fire_webhook without its try/except: the exception of the POST propagates
fire_webhook_unguarded(post) ==
    IF post = "delivered" THEN None ELSE Some(post)

\* AuditLogger._fire_webhook: the exception that leaves it, as an Optional.
\* The payload is formatted and posted inside try; `except Exception: pass`
\* swallows whatever the POST raises.
fire_webhook(post) ==
    IF post = "delivered"
    THEN None
    ELSE None

\* AuditLogger.log_event, after the entry is appended and saved: the
\* exception that leaves the call, as an Optional (`if webhook_url:` fires
\* the webhook)
log_event_raises(webhook_url, post) ==
    IF Truthy(webhook_url)
    THEN fire_webhook(post)
    ELSE None

----------------------------------------------------------------------------
(* interlock.py: the override phrase *)

\* the literal `word` (given in lower case), matched at index i of s under
\* re.IGNORECASE
match_literal(s, i, word) ==
    /\ i + Len(word) - 1 <= Len(s)
    /\ lower(SubSeq(s, i, i + Len(word) - 1)) = word

\* the index after the longest run of whitespace that starts at index i
skip_spaces(s, i) ==
    CHOOSE j \in i..(Len(s) + 1) :
        /\ \A k \in i..(j - 1) : IsSpace(s[k])
        /\ j = Len(s) + 1 \/ ~IsSpace(s[j])

\* the index of the first "\n" at or after index i, Len(s) + 1 if there is none
end_of_line(s, i) ==
    CHOOSE j \in i..(Len(s) + 1) :
        /\ \A k \in i..(j - 1) : s[k] # "\n"
        /\ j = Len(s) + 1 \/ s[j] = "\n"

\* OVERRIDE_PATTERN = OVERRIDE\s+SAFETY\s+PROTOCOL:\s*(.+) tried at index i:
\* group 1 as an Optional.  \s+ takes the whole run of whitespace (the next
\* literal starts with a letter); \s* is greedy and gives characters back
\* until (.+) finds a character that is not a newline; (.+) then runs to the
\* end of that line.
match_at(s, i) ==
    LET a1 == i + 8
        b1 == skip_spaces(s, a1)
        a2 == b1 + 6
        b2 == skip_spaces(s, a2)
        a3 == b2 + 9
        g  == skip_spaces(s, a3)
        starts == {k \in a3..Min(g, Len(s)) : s[k] # "\n"}
        k0 == CHOOSE k \in starts : \A j \in starts : j <= k
    IN  IF /\ match_literal(s, i, <<"o", "v", "e", "r", "r", "i", "d", "e">>)
           /\ b1 > a1
           /\ match_literal(s, b1, <<"s", "a", "f", "e", "t", "y">>)
           /\ b2 > a2
           /\ match_literal(s, b2, <<"p", "r", "o", "t", "o", "c", "o", "l", ":">>)
           /\ starts # {}
        THEN Some(SubSeq(s, k0, end_of_line(s, k0) - 1))
        ELSE None

\* OVERRIDE_PATTERN.search(message): the match at the leftmost index that has one
pattern_search(message) ==
    LET hits == {i \in 1..Len(message) : match_at(message, i) # None}
    IN  IF hits = {}
        THEN None
        ELSE match_at(message, CHOOSE i \in hits : \A j \in hits : i <= j)

\* process_override without the strip(): the reason is group 1 as matched
process_override_unstripped(message) ==
    LET match == pattern_search(message)
        grp   == CHOOSE g \in match : TRUE
    IN  IF match # None /\ Len(grp) > 0
        THEN [valid |-> TRUE, reason |-> Some(grp)]
        ELSE [valid |-> FALSE, reason |-> None]

\* HumsanaInterlock.process_override: (is_valid_override, reason)
process_override(message) ==
    LET match  == pattern_search(message)
        reason == strip(CHOOSE grp \in match : TRUE)
    IN  IF match # None /\ Len(reason) > 0
        THEN [valid |-> TRUE, reason |-> Some(reason)]
        ELSE [valid |-> FALSE, reason |-> None]

----------------------------------------------------------------------------
(* The inputs and the bounds of the model *)

\* at most this many rows in analysis_results
MaxRows == 1

\* execute_command is called while the audit log is shorter than this
MaxEntries == 2

\* execute_command is called while fewer shell calls than this were made
MaxShellCalls == 1

\* log_event is called directly while fewer entries than this were logged
\* since the audit log was loaded
MaxLogged == 3

\* the clock when the interlock is constructed: 6 hours after the heartbeat
\* of the initial logs
StartTime == 6 * 3600

\* the instants at which the clock is read: 12 minutes, one point of base
\* fatigue, apart
Instants == {StartTime, StartTime + 720}

ExecutionModes == {"dry_run", "live"}

FatigueThresholds == {DEFAULT_FATIGUE_THRESHOLD}

DenyPatternLists == {<<>>, << <<"D", "o", "c", "k", "e", "r", " ", "R", "M">> >>}

AllowPatternLists == {<<>>, << <<"D", "O", "C", "K", "E", "R">> >>}

\* the configurations load_config returns, without a webhook; is_pro is the
\* validity of the license (HumsanaConfig.is_pro)
Configs ==
    [execution_mode     : ExecutionModes,
     is_pro             : BOOLEAN,
     fatigue_threshold  : FatigueThresholds,
     dangerous_commands : {DEFAULT_DANGEROUS_COMMANDS},
     deny_patterns      : DenyPatternLists,
     allow_patterns     : AllowPatternLists,
     webhook_url        : {None}]

\* the activity.json the tracker loads: missing, or one heartbeat at time 0
InitialLogs == {<<>>, <<[timestamp |-> 0, source |-> "keyboard"]>>}

\* the seconds after StartTime at which the tracker's clock is read: around
\* the debounce, and around the ends of the 24 hours of the heartbeat of the
\* initial logs and of a heartbeat recorded at StartTime
TrackerOffsets ==
    {0, 30, 59, 60, 119, 120, 3600, 3659,
     HISTORY_HOURS * 3600 - StartTime - 1, HISTORY_HOURS * 3600 - StartTime,
     HISTORY_HOURS * 3600 - StartTime + 60,
     HISTORY_HOURS * 3600, HISTORY_HOURS * 3600 + 1}

TrackerInstants == {StartTime + d : d \in TrackerOffsets}

\* the break scenario is followed for this many half hours after the
\* heartbeat that ends the break
MaxHalfHours == 50

\* the heartbeat that ends the break of the scenario: minute 70
BreakEnd == 70 * 60

\* the log after record_activity calls at minutes 0, 1, 2, 3 and 70
BreakLog ==
    record_activity(
        record_activity(
            record_activity(
                record_activity(
                    record_activity(<<>>, 0, "keyboard"),
                    60, "keyboard"),
                120, "keyboard"),
            180, "keyboard"),
        BreakEnd, "keyboard")

\* the clock readings after the break: every quarter of an hour in the
\* first two hours, then every half hour
BreakInstants ==
    {BreakEnd + k * 900 : k \in 1..8} \cup {BreakEnd + k * 1800 : k \in 1..MaxHalfHours}

\* get_fatigue_level is read at uptimes of up to this many steps of 12
\* minutes (one point of base fatigue each; 60 steps are 12 hours)
MaxFatigueSteps == 62

FatigueUptimes == {720 * k : k \in 0..MaxFatigueSteps}

\* the current_stress arguments of get_fatigue_level, in thousandths
FatigueStressLevels == {0, 25, 500, 1000}

Commands ==
    {<<"r", "m", " ", "-", "r", "f", " ", "/", "t", "m", "p", "/", "x">>,
     <<"d", "o", "c", "k", "e", "r", " ", "r", "m", " ", "x">>,
     <<"l", "s">>}

\* the override_reason argument of execute_command
OverrideReasons == {None, Some(<<>>), Some(<<"p", "0">>)}

\* the messages given to process_override
Messages ==
    {<<"O", "V", "E", "R", "R", "I", "D", "E", " ", "S", "A", "F", "E", "T", "Y", " ",
       "P", "R", "O", "T", "O", "C", "O", "L", ":", " ", "p", "r", "o", "d", " ",
       "f", "i", "r", "e">>,
     <<"o", "v", "e", "r", "r", "i", "d", "e", " ", "s", "a", "f", "e", "t", "y", " ",
       "p", "r", "o", "t", "o", "c", "o", "l", ":", "p", "0">>,
     <<"O", "V", "E", "R", "R", "I", "D", "E", "\t", "S", "A", "F", "E", "T", "Y", " ",
       " ", "P", "R", "O", "T", "O", "C", "O", "L", ":", " ", "p", "0">>,
     <<"O", "V", "E", "R", "R", "I", "D", "E", " ", "S", "A", "F", "E", "T", "Y", " ",
       "P", "R", "O", "T", "O", "C", "O", "L", ":", " ", " ">>,
     <<"O", "V", "E", "R", "R", "I", "D", "E", " ", "S", "A", "F", "E", "T", "Y", " ",
       "P", "R", "O", "T", "O", "C", "O", "L", ":">>,
     <<"O", "V", "E", "R", "R", "I", "D", "E", " ", "S", "A", "F", "E", "T", "Y", " ",
       "P", "R", "O", "T", "O", "C", "O", "L", ":", "\n">>,
     <<"o", "k", " ", "O", "V", "E", "R", "R", "I", "D", "E", " ", "S", "A", "F", "E",
       "T", "Y", " ", "P", "R", "O", "T", "O", "C", "O", "L", ":", " ", "p", "0", " ",
       "\n", "l", "s">>,
     <<"O", "V", "E", "R", "R", "I", "D", "E", " ", "S", "A", "F", "E", "T", "Y", ":",
       " ", "p", "0">>,
     <<"p", "0">>}

\* the configurations of the override sessions: both modes, default patterns
SessionConfigs ==
    {cfg \in Configs : cfg.is_pro /\ cfg.deny_patterns = <<>> /\ cfg.allow_patterns = <<>>}

\* HumsanaConfig.webhook_url as passed to log_event
WebhookUrls == {None, Some(<<"h", "t", "t", "p", "s", ":", "/", "/", "h">>)}

\* the configurations of the webhook sessions: with and without
\* webhook_url
WebhookConfigs ==
    {[cfg EXCEPT !.webhook_url = url] : cfg \in SessionConfigs, url \in WebhookUrls}

\* the entry number i of an audit log written by an earlier run (its
\* timestamp, i seconds into that run, is before StartTime)
stored_entry(i) ==
    [event            |-> "command_blocked",
     timestamp        |-> i,
     command          |-> <<"l", "s">>,
     fatigue_level    |-> 0,
     fatigue_category |-> "low",
     uptime_hours     |-> 0,
     override_reason  |-> None,
     outcome          |-> "blocked",
     mode             |-> "dry_run"]

\* AuditLogger._load_entries: the logs found on disk, of MAX_ENTRIES entries
\* or one fewer
LoadedLogs ==
    {[i \in 1..n |-> stored_entry(i)] : n \in (MAX_ENTRIES - 1)..MAX_ENTRIES}

\* the events the interlock logs, with the outcome it logs for them
AuditEvents == {"safety_override", "command_blocked", "dangerous_command_allowed"}

\* stress_level of a stored analysis result, in thousandths
StressLevels == {1000}

SubprocessOutcomes == {"ok", "timeout", "error"}

----------------------------------------------------------------------------
(* interlock.py: the decision *)

\* HumsanaInterlock._matches_patterns
matches_patterns(command, patterns) ==
    \E i \in DOMAIN patterns : str_in(lower(patterns[i]), lower(command))

\* HumsanaInterlock._is_dangerous_command
is_dangerous_command(cfg, command) ==
    \/ matches_patterns(command, cfg.dangerous_commands)
    \/ matches_patterns(command, cfg.deny_patterns)

\* _is_dangerous_command, _matches_patterns on allow_patterns and
\* process_override, evaluated once for every configuration, command and
\* message of the model (f @@ <<>> is the function f, tabulated)
DangerousCommands ==
    [cfg \in Configs \cup WebhookConfigs |-> {c \in Commands : is_dangerous_command(cfg, c)}] @@ <<>>

AllowlistedCommands ==
    [cfg \in Configs \cup WebhookConfigs |-> {c \in Commands : matches_patterns(c, cfg.allow_patterns)}] @@ <<>>

\* the commands that match one of the configuration's deny_patterns
DeniedCommands ==
    [cfg \in Configs \cup WebhookConfigs |-> {c \in Commands : matches_patterns(c, cfg.deny_patterns)}] @@ <<>>

OverrideOf == [m \in Messages |-> process_override(m)] @@ <<>>

\* should_block with >= for >: blocks at the threshold too
should_block_at_threshold(cfg, command, fatigue_level) ==
    command \in DangerousCommands[cfg] /\ fatigue_level >= cfg.fatigue_threshold

\* should_block of check_command and execute_command
should_block(cfg, command, fatigue_level) ==
    command \in DangerousCommands[cfg] /\ fatigue_level > cfg.fatigue_threshold

\* the line of check_command's override_instruction that names the phrase
CHECK_INSTRUCTION == "OVERRIDE SAFETY PROTOCOL: [your reason]"

\* the line of execute_command's BLOCKED message that names the phrase
BLOCKED_INSTRUCTION == "OVERRIDE SAFETY PROTOCOL: [reason]"

\* The shape of `result`.  op and argument name the call; fatigue_level is the
\* level the call computed (also when the returned dict has no 'fatigue'
\* key); subprocess is what the call's subprocess.run did and delivery what
\* its webhook POST did ("none" when there was none); raised tells that the
\* call raised instead of returning; entry is the AuditEntry log_event
\* returned; uptime_seconds and current_stress are the uptime and the
\* argument of a get_fatigue_level call; a key the returned value lacks holds
\* the default below.
NoResult ==
    [op                   |-> "none",
     subprocess           |-> "none",
     delivery             |-> "none",
     raised               |-> FALSE,
     entry                |-> None,
     command              |-> <<>>,
     argument             |-> None,
     fatigue_level        |-> 0,
     allowed              |-> FALSE,
     status               |-> "",
     message              |-> "",
     override_instruction |-> "",
     error                |-> "",
     override_required    |-> FALSE,
     override_reason      |-> None,
     mode                 |-> "",
     valid                |-> FALSE,
     reason               |-> None,
     uptime_seconds       |-> 0,
     current_stress       |-> 0]

\* HumsanaInterlock.check_command's InterlockResult
check_command(cfg, command, status) ==
    IF should_block(cfg, command, status.fatigue_level)
    THEN [NoResult EXCEPT !.op = "check_command",
                          !.command = command,
                          !.fatigue_level = status.fatigue_level,
                          !.allowed = FALSE,
                          !.status = "blocked",
                          !.message = "INTERLOCK ENGAGED",
                          !.mode = cfg.execution_mode,
                          !.override_instruction = CHECK_INSTRUCTION]
    ELSE [NoResult EXCEPT !.op = "check_command",
                          !.command = command,
                          !.fatigue_level = status.fatigue_level,
                          !.allowed = TRUE,
                          !.status = "allowed",
                          !.message = "Safety check passed",
                          !.mode = cfg.execution_mode]

\* what execute_command and _execute_or_simulate return: the returned dict
\* (with the call's arguments and fatigue level) and `invoked`, whether
\* subprocess.run was called
Returned(command, status, fields, invoked) ==
    [ret     |-> [fields EXCEPT !.op = "execute_command",
                                !.command = command,
                                !.fatigue_level = status.fatigue_level],
     invoked |-> invoked]

\* _execute_or_simulate, the dry_run branch
simulate(command, status, override_reason) ==
    Returned(command, status,
             [NoResult EXCEPT !.status = "SIMULATED",
                              !.message = "[DRY RUN]",
                              !.mode = "dry_run",
                              !.override_reason = override_reason],
             FALSE)

\* live execution that consults the allowlist only when no override is given
live_execution_override_skips_allowlist(cfg, command, status, override_reason, outcome) ==
    IF /\ Len(cfg.allow_patterns) > 0
       /\ command \notin AllowlistedCommands[cfg]
       /\ ~Truthy(override_reason)
    THEN Returned(command, status,
                  [NoResult EXCEPT !.status = "BLOCKED",
                                   !.error = "Command not in allowlist",
                                   !.message = "not in the allow_patterns list",
                                   !.mode = "live"],
                  FALSE)
    ELSE IF outcome = "ok"
    THEN Returned(command, status,
                  [NoResult EXCEPT !.status = "EXECUTED",
                                   !.mode = "live",
                                   !.override_reason = override_reason],
                  TRUE)
    ELSE IF outcome = "timeout"
    THEN Returned(command, status,
                  [NoResult EXCEPT !.status = "TIMEOUT",
                                   !.error = "Command timed out after 30 seconds",
                                   !.mode = "live"],
                  TRUE)
    ELSE Returned(command, status,
                  [NoResult EXCEPT !.status = "ERROR",
                                   !.error = "str(e)",
                                   !.mode = "live"],
                  TRUE)

\* live execution that runs the command again after a timeout and returns
\* the result of the second run
live_execution_retrying(cfg, command, status, override_reason, outcome) ==
    IF Len(cfg.allow_patterns) > 0 /\ command \notin AllowlistedCommands[cfg]
    THEN Returned(command, status,
                  [NoResult EXCEPT !.status = "BLOCKED",
                                   !.error = "Command not in allowlist",
                                   !.message = "not in the allow_patterns list",
                                   !.mode = "live"],
                  FALSE)
    ELSE IF outcome \in {"ok", "timeout"}
    THEN Returned(command, status,
                  [NoResult EXCEPT !.status = "EXECUTED",
                                   !.mode = "live",
                                   !.override_reason = override_reason],
                  TRUE)
    ELSE Returned(command, status,
                  [NoResult EXCEPT !.status = "ERROR",
                                   !.error = "str(e)",
                                   !.mode = "live"],
                  TRUE)

\* _execute_or_simulate, live execution: the allowlist, then subprocess.run,
\* whose `outcome` is "ok", "timeout" (TimeoutExpired) or "error" (any other
\* exception)
live_execution(cfg, command, status, override_reason, outcome) ==
    IF Len(cfg.allow_patterns) > 0 /\ command \notin AllowlistedCommands[cfg]
    THEN Returned(command, status,
                  [NoResult EXCEPT !.status = "BLOCKED",
                                   !.error = "Command not in allowlist",
                                   !.message = "not in the allow_patterns list",
                                   !.mode = "live"],
                  FALSE)
    ELSE IF outcome = "ok"
    THEN Returned(command, status,
                  [NoResult EXCEPT !.status = "EXECUTED",
                                   !.mode = "live",
                                   !.override_reason = override_reason],
                  TRUE)
    ELSE IF outcome = "timeout"
    THEN Returned(command, status,
                  [NoResult EXCEPT !.status = "TIMEOUT",
                                   !.error = "Command timed out after 30 seconds",
                                   !.mode = "live"],
                  TRUE)
    ELSE Returned(command, status,
                  [NoResult EXCEPT !.status = "ERROR",
                                   !.error = "str(e)",
                                   !.mode = "live"],
                  TRUE)

\* _execute_or_simulate that simulates only when no override is given
execute_or_simulate_override_runs(cfg, command, status, override_reason, outcome) ==
    IF cfg.execution_mode = "dry_run" /\ ~Truthy(override_reason)
    THEN simulate(command, status, override_reason)
    ELSE live_execution(cfg, command, status, override_reason, outcome)

\* HumsanaInterlock._execute_or_simulate
execute_or_simulate(cfg, command, status, override_reason, outcome) ==
    IF cfg.execution_mode = "dry_run"
    THEN simulate(command, status, override_reason)
    ELSE live_execution(cfg, command, status, override_reason, outcome)

\* the outcome execute_command writes to the audit log before it runs anything
logged_outcome(cfg) ==
    IF cfg.execution_mode = "live" THEN "executed" ELSE "simulated"

\* what execute_command leaves behind when a log_event call raises: no
\* returned dict
Raised(command, status) ==
    [NoResult EXCEPT !.op = "execute_command",
                     !.command = command,
                     !.fatigue_level = status.fatigue_level,
                     !.raised = TRUE]

\* the override branch without its log_event call
handle_override_unlogged(cfg, es, t, command, override_reason, status, outcome, post) ==
    LET run == execute_or_simulate(cfg, command, status, override_reason, outcome)
    IN  [entries |-> es, logged |-> FALSE, ret |-> run.ret, invoked |-> run.invoked]

\* execute_command, "Handle override": log safety_override (with the
\* configured webhook_url), then execute or simulate
handle_override(cfg, es, t, command, override_reason, status, outcome, post) ==
    LET raises == log_event_raises(cfg.webhook_url, post)
        run    == execute_or_simulate(cfg, command, status, override_reason, outcome)
    IN  [entries |-> log_event(es, "safety_override", t, command, status,
                               logged_outcome(cfg), cfg.execution_mode,
                               override_reason),
         logged  |-> TRUE,
         ret     |-> IF raises = None THEN run.ret ELSE Raised(command, status),
         invoked |-> raises = None /\ run.invoked]

\* the block branch without its log_event call
block_command_unlogged(cfg, es, t, command, status, post) ==
    [entries |-> es,
     logged  |-> FALSE,
     ret     |-> Returned(command, status,
                          [NoResult EXCEPT !.status = "BLOCKED",
                                           !.error = "INTERLOCK ENGAGED",
                                           !.message = BLOCKED_INSTRUCTION,
                                           !.mode = cfg.execution_mode,
                                           !.override_required = TRUE],
                          FALSE).ret,
     invoked |-> FALSE]

\* execute_command, "Block if dangerous + fatigued + no override"
block_command(cfg, es, t, command, status, post) ==
    [entries |-> log_event(es, "command_blocked", t, command, status,
                           "blocked", cfg.execution_mode, None),
     logged  |-> TRUE,
     ret     |-> IF log_event_raises(cfg.webhook_url, post) = None
                 THEN Returned(command, status,
                               [NoResult EXCEPT !.status = "BLOCKED",
                                                !.error = "INTERLOCK ENGAGED",
                                                !.message = BLOCKED_INSTRUCTION,
                                                !.mode = cfg.execution_mode,
                                                !.override_required = TRUE],
                               FALSE).ret
                 ELSE Raised(command, status),
     invoked |-> FALSE]

\* the allow branch logging every command it lets through
allow_command_logging_all(cfg, es, t, command, status, outcome, post) ==
    LET raises == log_event_raises(cfg.webhook_url, post)
        run    == execute_or_simulate(cfg, command, status, None, outcome)
    IN  [entries |-> log_event(es, "dangerous_command_allowed", t, command,
                               status, logged_outcome(cfg),
                               cfg.execution_mode, None),
         logged  |-> TRUE,
         ret     |-> IF raises = None THEN run.ret ELSE Raised(command, status),
         invoked |-> raises = None /\ run.invoked]

\* execute_command, "Safe command or low fatigue": log a dangerous command,
\* then execute or simulate (without an override_reason argument)
allow_command(cfg, es, t, command, status, outcome, post) ==
    LET is_dangerous == command \in DangerousCommands[cfg]
        raises == IF is_dangerous
                  THEN log_event_raises(cfg.webhook_url, post)
                  ELSE None
        run    == execute_or_simulate(cfg, command, status, None, outcome)
    IN  [entries |-> IF is_dangerous
                     THEN log_event(es, "dangerous_command_allowed", t, command,
                                    status, logged_outcome(cfg),
                                    cfg.execution_mode, None)
                     ELSE es,
         logged  |-> is_dangerous,
         ret     |-> IF raises = None THEN run.ret ELSE Raised(command, status),
         invoked |-> raises = None /\ run.invoked]

\* HumsanaInterlock.execute_command: the audit log after the call, whether
\* log_event was called, the returned dict and whether subprocess.run was
\* called; `outcome` is what subprocess.run does and `post` what the webhook
\* POST does
execute_command(cfg, es, t, command, override_reason, status, outcome, post) ==
    IF should_block(cfg, command, status.fatigue_level) /\ Truthy(override_reason)
    THEN handle_override(cfg, es, t, command, override_reason, status, outcome, post)
    ELSE IF should_block(cfg, command, status.fatigue_level)
    THEN block_command(cfg, es, t, command, status, post)
    ELSE allow_command(cfg, es, t, command, status, outcome, post)

----------------------------------------------------------------------------
(* The state machine *)

\* the fatigue status a call made now computes
CurrentStatus == get_fatigue_status(heartbeats, now, get_current_stress(db, now))

\* time passes
Tick(t) ==
    /\ t > now
    /\ now' = t
    /\ UNCHANGED <<config, heartbeats, db, entries, pending_override_reason,
                   shell_calls, result>>
    /\ UNCHANGED daemon

\* LocalDatabase.store_analysis: the daemon stores an analysis result
StoreAnalysis(stress) ==
    /\ Len(db) < MaxRows
    /\ db' = Append(db, [timestamp |-> now, stress_level |-> stress])
    /\ UNCHANGED <<config, now, heartbeats, entries, pending_override_reason,
                   shell_calls, result>>
    /\ UNCHANGED daemon

\* ActivityTracker.record_activity
RecordActivity(source) ==
    /\ heartbeats' = record_activity(heartbeats, now, source)
    /\ UNCHANGED <<config, now, db, entries, pending_override_reason,
                   shell_calls, result>>
    /\ UNCHANGED daemon

\* HumsanaInterlock.check_command
CheckCommand(command) ==
    /\ result' = check_command(config, command, CurrentStatus)
    /\ UNCHANGED <<config, now, heartbeats, db, entries, pending_override_reason,
                   shell_calls>>
    /\ UNCHANGED daemon

\* HumsanaInterlock.process_override
ProcessOverride(message) ==
    LET r == OverrideOf[message]
    IN  /\ pending_override_reason' =
               IF r.valid THEN r.reason ELSE pending_override_reason
        /\ result' = [NoResult EXCEPT !.op = "process_override",
                                      !.argument = Some(message),
                                      !.valid = r.valid,
                                      !.reason = r.reason]
        /\ UNCHANGED <<config, now, heartbeats, db, entries, shell_calls>>
        /\ UNCHANGED daemon

\* execute_command that clears the heartbeat log when an override goes through
ExecuteCommandResettingUptime(command, override_reason) ==
    /\ Len(entries) < MaxEntries
    /\ shell_calls < MaxShellCalls
    /\ \E outcome \in SubprocessOutcomes, post \in Deliveries(config.webhook_url) :
           LET r == execute_command(config, entries, now, command, override_reason,
                                    CurrentStatus, outcome, post)
           IN  /\ entries' = r.entries
               /\ result' = [r.ret EXCEPT !.argument = override_reason,
                                         !.subprocess = IF r.invoked THEN outcome
                                                        ELSE "none",
                                         !.delivery = IF r.logged THEN post
                                                      ELSE "none"]
               /\ shell_calls' = IF r.invoked THEN shell_calls + 1 ELSE shell_calls
    /\ heartbeats' =
           IF /\ should_block(config, command, CurrentStatus.fatigue_level)
              /\ Truthy(override_reason)
           THEN <<>>
           ELSE heartbeats
    /\ UNCHANGED <<config, now, db, pending_override_reason>>
    /\ UNCHANGED daemon

\* HumsanaInterlock.execute_command; the call's override_reason argument is
\* recorded in result.argument
ExecuteCommand(command, override_reason) ==
    /\ Len(entries) < MaxEntries
    /\ shell_calls < MaxShellCalls
    /\ \E outcome \in SubprocessOutcomes, post \in Deliveries(config.webhook_url) :
           LET r == execute_command(config, entries, now, command, override_reason,
                                    CurrentStatus, outcome, post)
           IN  /\ entries' = r.entries
               /\ result' = [r.ret EXCEPT !.argument = override_reason,
                                         !.subprocess = IF r.invoked THEN outcome
                                                        ELSE "none",
                                         !.delivery = IF r.logged THEN post
                                                      ELSE "none"]
               /\ shell_calls' = IF r.invoked THEN shell_calls + 1 ELSE shell_calls
    /\ UNCHANGED <<config, now, heartbeats, db, pending_override_reason>>
    /\ UNCHANGED daemon

\* ActivityTracker.get_fatigue_level(current_stress), with current_stress in
\* thousandths
GetFatigueLevel(current_stress) ==
    /\ result' = [NoResult EXCEPT
                      !.op = "get_fatigue_level",
                      !.fatigue_level = get_fatigue_level(heartbeats, now, current_stress),
                      !.uptime_seconds = get_cognitive_uptime_seconds(heartbeats, now),
                      !.current_stress = current_stress]
    /\ UNCHANGED <<config, now, heartbeats, db, entries, pending_override_reason,
                   shell_calls>>
    /\ UNCHANGED daemon

\* the entries logged since the audit log was loaded
logged_since_load(es) ==
    Cardinality({i \in DOMAIN es : es[i].timestamp >= StartTime})

\* AuditLogger.log_event called as the interlock calls it for `event`, with
\* the webhook_url argument; `post` is what the webhook POST does
LogEvent(event, webhook_url) ==
    /\ logged_since_load(entries) < MaxLogged
    /\ \E post \in Deliveries(webhook_url) :
           LET es     == log_event(entries, event, now,
                                   <<"r", "m", " ", "-", "r", "f">>, CurrentStatus,
                                   IF event = "command_blocked" THEN "blocked"
                                   ELSE logged_outcome(config),
                                   config.execution_mode,
                                   IF event = "safety_override"
                                   THEN Some(<<"p", "0">>) ELSE None)
               raises == log_event_raises(webhook_url, post)
           IN  /\ entries' = es
               /\ result' = [NoResult EXCEPT
                                 !.op = "log_event",
                                 !.argument = webhook_url,
                                 !.fatigue_level = CurrentStatus.fatigue_level,
                                 !.delivery = post,
                                 !.raised = (raises # None),
                                 !.entry = IF raises = None
                                           THEN Some(es[Len(es)]) ELSE None]
    /\ UNCHANGED <<config, now, heartbeats, db, pending_override_reason, shell_calls>>
    /\ UNCHANGED daemon

\* SignalCollector.__init__, with a callback or without. `running` is
\* _running; `keyboard` is where the keyboard listener thread is in
\* _on_key_press, with the handler's local variables; key_presses counts the
\* key presses that have reached the batch counter, callbacks the calls of
\* on_signal_batch, and analysing the calls of it that have not returned.
NewCollector(on_signal_batch) ==
    [signals         |-> <<>>,
     last_key_time   |-> None,
     on_signal_batch |-> on_signal_batch,
     batch_count     |-> 0,
     running         |-> FALSE,
     keyboard        |-> [pc |-> "idle", now |-> 0, interval_ms |-> 0,
                          is_backspace |-> FALSE, is_modifier |-> FALSE],
     key_presses     |-> 0,
     callbacks       |-> 0,
     analysing       |-> 0]

\* HumsanaDaemon.__init__: a new analyzer, collector and notifier; no Slack
\* status set
InitDaemon ==
    /\ analysis_history = <<>>
    /\ collector = NewCollector(TRUE)
    /\ last_state = None
    /\ notifier = [slack_user_token |-> None, last_state |-> None,
                   last_slack_status |-> None]
    /\ slack = [profile |-> None, failed |-> FALSE]

\* The decision engine under every configuration
Init ==
    /\ config \in Configs
    /\ now = StartTime
    /\ heartbeats \in InitialLogs
    /\ db = <<>>
    /\ entries = <<>>
    /\ pending_override_reason = None
    /\ shell_calls = 0
    /\ result = NoResult
    /\ InitDaemon

Next ==
    \/ \E t \in Instants : Tick(t)
    \/ \E stress \in StressLevels : StoreAnalysis(stress)
    \/ \E command \in Commands : CheckCommand(command)
    \/ \E command \in Commands, reason \in OverrideReasons :
           ExecuteCommand(command, reason)

Spec == Init /\ [][Next]_vars

\* The override protocol: a session of process_override and execute_command
\* calls while the user stays active
InitSession ==
    /\ config \in SessionConfigs
    /\ now = StartTime
    /\ heartbeats \in InitialLogs
    /\ db = <<>>
    /\ entries = <<>>
    /\ pending_override_reason = None
    /\ shell_calls = 0
    /\ result = NoResult
    /\ InitDaemon

NextSession ==
    \/ \E t \in Instants : Tick(t)
    \/ \E stress \in StressLevels : StoreAnalysis(stress)
    \/ RecordActivity("keyboard")
    \/ \E message \in Messages : ProcessOverride(message)
    \/ \E command \in Commands, reason \in OverrideReasons :
           ExecuteCommand(command, reason)

SpecSession == InitSession /\ [][NextSession]_vars

\* The audit log: log_event on a log loaded at or near its cap
InitAudit ==
    /\ config \in SessionConfigs
    /\ now = StartTime
    /\ heartbeats \in InitialLogs
    /\ db = <<>>
    /\ entries \in LoadedLogs
    /\ pending_override_reason = None
    /\ shell_calls = 0
    /\ result = NoResult
    /\ InitDaemon

NextAudit ==
    \/ \E t \in Instants : Tick(t)
    \/ \E event \in AuditEvents, webhook_url \in WebhookUrls :
           LogEvent(event, webhook_url)

SpecAudit == InitAudit /\ [][NextAudit]_vars

\* The activity tracker alone: the daemon records activity while time passes
InitTracker ==
    /\ config \in {cfg \in SessionConfigs : cfg.execution_mode = "dry_run"}
    /\ now = StartTime
    /\ heartbeats \in InitialLogs
    /\ db = <<>>
    /\ entries = <<>>
    /\ pending_override_reason = None
    /\ shell_calls = 0
    /\ result = NoResult
    /\ InitDaemon

NextTracker ==
    \/ \E t \in TrackerInstants : Tick(t)
    \/ RecordActivity("keyboard")

SpecTracker == InitTracker /\ [][NextTracker]_vars

\* The break scenario: the log of BreakLog at minute 70, then activity goes
\* on, each heartbeat less than BREAK_THRESHOLD_MINUTES after the one before
InitBreak ==
    /\ config \in {cfg \in SessionConfigs : cfg.execution_mode = "dry_run"}
    /\ now = BreakEnd
    /\ heartbeats = BreakLog
    /\ db = <<>>
    /\ entries = <<>>
    /\ pending_override_reason = None
    /\ shell_calls = 0
    /\ result = NoResult
    /\ InitDaemon

NextBreak ==
    \/ \E t \in BreakInstants :
           /\ t - heartbeats[Len(heartbeats)].timestamp < BREAK_THRESHOLD_MINUTES * 60
           /\ Tick(t)
    \/ RecordActivity("keyboard")

SpecBreak == InitBreak /\ [][NextBreak]_vars

\* The fatigue formula: get_fatigue_level read at some time after the only
\* heartbeat of the log
InitFatigue ==
    /\ config \in {cfg \in SessionConfigs : cfg.execution_mode = "dry_run"}
    /\ now \in FatigueUptimes
    /\ heartbeats = <<[timestamp |-> 0, source |-> "keyboard"]>>
    /\ db = <<>>
    /\ entries = <<>>
    /\ pending_override_reason = None
    /\ shell_calls = 0
    /\ result = NoResult
    /\ InitDaemon

NextFatigue ==
    \E current_stress \in FatigueStressLevels : GetFatigueLevel(current_stress)

SpecFatigue == InitFatigue /\ [][NextFatigue]_vars

\* The interlock with and without a configured webhook, whose POST may fail;
\* the daemon has stored an analysis result when the interlock is constructed
InitWebhook ==
    /\ config \in WebhookConfigs
    /\ now = StartTime
    /\ heartbeats \in InitialLogs
    /\ db = <<[timestamp |-> StartTime, stress_level |-> 1000]>>
    /\ entries = <<>>
    /\ pending_override_reason = None
    /\ shell_calls = 0
    /\ result = NoResult
    /\ InitDaemon

NextWebhook ==
    \/ \E t \in Instants : Tick(t)
    \/ \E event \in AuditEvents :
           Len(entries) < MaxEntries /\ LogEvent(event, config.webhook_url)
    \/ \E command \in Commands, reason \in OverrideReasons :
           ExecuteCommand(command, reason)

SpecWebhook == InitWebhook /\ [][NextWebhook]_vars

----------------------------------------------------------------------------
(* The interlock's contract: allow, block, override *)

\* the call recorded in r was gated: its command is dangerous and the fatigue
\* level it computed is strictly above the threshold
Gated(r) ==
    /\ r.command \in DangerousCommands[config]
    /\ r.fatigue_level > config.fatigue_threshold

\* a step of execute_command that changed the result, the audit log or the
\* number of shell invocations
ExecuteStep ==
    /\ result'.op = "execute_command"
    /\ <<result, entries, shell_calls>>' # <<result, entries, shell_calls>>

C2_OverrideNeverBlocked ==
    (result.op = "execute_command" /\ Gated(result) /\ Truthy(result.argument)) =>
        /\ Len(entries) > 0
        /\ entries[Len(entries)].event = "safety_override"
        /\ result.status # "BLOCKED"

\* C2, amended: execute_command with a non-empty override reason on a gated
\* command appends a safety_override entry carrying that reason and never
\* returns the interlock's block (override_required); it returns SIMULATED in
\* dry_run; in live it returns BLOCKED 'Command not in allowlist' when
\* allow_patterns is non-empty and the command contains none of them, and
\* otherwise EXECUTED, TIMEOUT or ERROR.
C2_OverrideProceeds ==
    (result.op = "execute_command" /\ Gated(result) /\ Truthy(result.argument)) =>
        /\ Len(entries) > 0
        /\ entries[Len(entries)].event = "safety_override"
        /\ entries[Len(entries)].command = result.command
        /\ entries[Len(entries)].override_reason = result.argument
        /\ ~result.override_required
        /\ IF config.execution_mode = "dry_run"
           THEN result.status = "SIMULATED"
           ELSE IF /\ Len(config.allow_patterns) > 0
                   /\ result.command \notin AllowlistedCommands[config]
           THEN /\ result.status = "BLOCKED"
                /\ result.error = "Command not in allowlist"
           ELSE result.status \in {"EXECUTED", "TIMEOUT", "ERROR"}

\* an override on a gated command was logged and then rejected by the allowlist
C2_Witness ==
    /\ result.op = "execute_command"
    /\ Gated(result)
    /\ Truthy(result.argument)
    /\ config.execution_mode = "live"
    /\ result.status = "BLOCKED"
    /\ result.error = "Command not in allowlist"
    /\ Len(entries) > 0
    /\ entries[Len(entries)].event = "safety_override"

\* C3 as stated: the override phrase is the only bypass: a gated command
\* proceeds past the block only if process_override returned (True, reason)
\* for the supplied override, i.e. the supplied text is a message that
\* process_override accepts or the reason that process_override last accepted.
C3_PhraseIsOnlyBypass ==
    (result.op = "execute_command" /\ Gated(result) /\ ~result.override_required) =>
        \E text \in result.argument :
            \/ text \in Messages /\ OverrideOf[text].valid
            \/ pending_override_reason = Some(text)

\* the messages of the model that hold the literal, single-spaced phrase
\* (any case) followed by text that is non-empty after trimming, with that text
LITERAL_PHRASE ==
    <<"o", "v", "e", "r", "r", "i", "d", "e", " ", "s", "a", "f", "e", "t", "y", " ",
      "p", "r", "o", "t", "o", "c", "o", "l", ":">>

LiteralPhraseReason(message) ==
    LET starts == {i \in 1..(Len(message) - Len(LITERAL_PHRASE) + 1) :
                       lower(SubSeq(message, i, i + Len(LITERAL_PHRASE) - 1))
                           = LITERAL_PHRASE}
        good   == {i \in starts :
                       strip(SubSeq(message, i + Len(LITERAL_PHRASE), Len(message)))
                           # <<>>}
        first  == CHOOSE i \in good : \A j \in good : i <= j
    IN  IF good = {}
        THEN [valid |-> FALSE, reason |-> None]
        ELSE [valid  |-> TRUE,
              reason |-> Some(strip(SubSeq(message, first + Len(LITERAL_PHRASE),
                                           Len(message))))]

LiteralPhraseReasons == [m \in Messages |-> LiteralPhraseReason(m)] @@ <<>>

\* C4 as stated: process_override returns (True, reason) exactly when the
\* message contains the phrase 'OVERRIDE SAFETY PROTOCOL:' (any case) followed
\* by a reason that is non-empty after trimming, the reason being the trimmed
\* text after the phrase, and (False, None) otherwise; execute_command with no
\* reason or an empty reason on a gated command returns BLOCKED.
C4_LiteralPhrase ==
    /\ result.op = "process_override" =>
           \A m \in result.argument :
               /\ result.valid = LiteralPhraseReasons[m].valid
               /\ result.reason = LiteralPhraseReasons[m].reason
    /\ (result.op = "execute_command" /\ Gated(result) /\ ~Truthy(result.argument)) =>
           result.status = "BLOCKED"

\* the index after the run of one or more whitespace characters at index i,
\* as a set: empty when the character at i is not whitespace
AfterGap(message, i) ==
    {j \in (i + 1)..(Len(message) + 1) :
         /\ \A k \in i..(j - 1) : IsSpace(message[k])
         /\ j = Len(message) + 1 \/ ~IsSpace(message[j])}

\* the indices after the ':' of an occurrence of the words OVERRIDE, SAFETY,
\* PROTOCOL: (any case) separated by one or more whitespace characters
PhraseEnds(message) ==
    {e \in 1..(Len(message) + 1) :
         \E i \in 1..Len(message) :
             /\ match_literal(message, i, <<"o", "v", "e", "r", "r", "i", "d", "e">>)
             /\ \E p \in AfterGap(message, i + 8) :
                    /\ match_literal(message, p, <<"s", "a", "f", "e", "t", "y">>)
                    /\ \E q \in AfterGap(message, p + 6) :
                           /\ match_literal(message, q,
                                            <<"p", "r", "o", "t", "o", "c", "o", "l", ":">>)
                           /\ e = q + 9}

\* what the phrase grammar gives for a message: the leftmost occurrence of
\* the words that is followed, after optional whitespace, by a character of
\* the same or a later line; the reason is the rest of that character's line,
\* trimmed
PhraseReason(message) ==
    LET text(e) == {k \in e..Len(message) :
                        /\ ~IsSpace(message[k])
                        /\ \A j \in e..(k - 1) : IsSpace(message[j])}
        ends    == {e \in PhraseEnds(message) : text(e) # {}}
        first   == CHOOSE e \in ends : \A f \in ends : e <= f
        start   == CHOOSE k \in text(first) : TRUE
        stop    == CHOOSE j \in start..(Len(message) + 1) :
                       /\ \A k \in start..(j - 1) : message[k] # "\n"
                       /\ j = Len(message) + 1 \/ message[j] = "\n"
    IN  IF ends = {}
        THEN [valid |-> FALSE, reason |-> None]
        ELSE [valid  |-> TRUE,
              reason |-> Some(strip(SubSeq(message, start, stop - 1)))]

PhraseReasons == [m \in Messages |-> PhraseReason(m)] @@ <<>>

\* C4, amended: process_override returns (True, reason) exactly when the
\* message contains the words OVERRIDE, SAFETY, PROTOCOL: (any case, separated
\* by one or more whitespace characters) followed, after optional whitespace,
\* by a character that is not whitespace; the reason is the rest of the line
\* that character is on, trimmed.  Otherwise it returns (False, None).
\* execute_command with no reason or an empty reason on a gated command
\* returns BLOCKED.
C4_PhraseGrammar ==
    /\ result.op = "process_override" =>
           \A m \in result.argument :
               /\ result.valid = PhraseReasons[m].valid
               /\ result.reason = PhraseReasons[m].reason
               /\ result.valid => pending_override_reason = result.reason
    /\ (result.op = "execute_command" /\ Gated(result) /\ ~Truthy(result.argument)) =>
           /\ result.status = "BLOCKED"
           /\ result.override_required

\* process_override accepted a message whose words are separated by a tab and
\* two spaces, which the literal phrase does not occur in
C4_Witness ==
    /\ result.op = "process_override"
    /\ result.valid
    /\ result.reason = Some(<<"p", "0">>)
    /\ \E m \in result.argument :
           /\ ~LiteralPhraseReasons[m].valid
           /\ \E i \in 1..Len(m) : m[i] = "\t"

\* C5: an override leaves the fatigue state unchanged: a step of
\* process_override or execute_command (a step that changes the result, the
\* audit log, the pending override or the shell invocations) changes neither
\* the heartbeat log nor the stored stress, so the uptime and the fatigue
\* level computed for the same clock time and stress value are the same
\* before and after.
C5_OverrideKeepsFatigue ==
    [][(<<result, entries, pending_override_reason, shell_calls>>'
            # <<result, entries, pending_override_reason, shell_calls>>)
       => /\ heartbeats' = heartbeats
          /\ db' = db
          /\ \A stress \in StressLevels :
                 get_fatigue_status(heartbeats', now, stress)
                     = get_fatigue_status(heartbeats, now, stress)]_vars

\* an override went through while the heartbeat log was non-empty, and the
\* fatigue level is still the gated one
C5_Witness ==
    /\ result.op = "execute_command"
    /\ Gated(result)
    /\ Truthy(result.argument)
    /\ result.status \in {"SIMULATED", "EXECUTED"}
    /\ Len(heartbeats) > 0
    /\ CurrentStatus.fatigue_level = result.fatigue_level
    /\ pending_override_reason = result.argument

\* C6 as stated: with execution_mode 'live' and no valid license the
\* interlock behaves as dry_run: execute_command never invokes the shell and
\* returns SIMULATED where it would otherwise execute.
C6_LiveNeedsLicense ==
    (config.execution_mode = "live" /\ ~config.is_pro) =>
        /\ effective_execution_mode(config) = "dry_run"
        /\ shell_calls = 0
        /\ result.op = "execute_command" => result.status \in {"SIMULATED", "BLOCKED"}

\* C7: in dry_run mode execute_command never invokes the shell, and the
\* status it returns is SIMULATED or BLOCKED, never EXECUTED.
C7_DryRunNeverExecutes ==
    config.execution_mode = "dry_run" =>
        /\ shell_calls = 0
        /\ result.op = "execute_command" => result.status \in {"SIMULATED", "BLOCKED"}

\* a gated command went through on an override in dry_run and was simulated
C7_Witness ==
    /\ config.execution_mode = "dry_run"
    /\ result.op = "execute_command"
    /\ Gated(result)
    /\ Truthy(result.argument)
    /\ result.status = "SIMULATED"
    /\ shell_calls = 0

\* C8: in live mode with a non-empty allow_patterns list, execute_command on
\* a command that contains none of the patterns returns BLOCKED without
\* invoking the shell, whatever the fatigue, the danger and the override; a
\* command that contains one of the patterns is not rejected by the allowlist.
C8_AllowlistInLive ==
    [][(/\ ExecuteStep
        /\ config.execution_mode = "live"
        /\ Len(config.allow_patterns) > 0)
       => IF result'.command \notin AllowlistedCommands[config]
          THEN /\ result'.status = "BLOCKED"
               /\ shell_calls' = shell_calls
          ELSE result'.error # "Command not in allowlist"]_vars

\* the allowlist rejected a gated command that came with an override reason
C8_Witness ==
    /\ config.execution_mode = "live"
    /\ Len(config.allow_patterns) > 0
    /\ result.op = "execute_command"
    /\ result.command \notin AllowlistedCommands[config]
    /\ Gated(result)
    /\ Truthy(result.argument)
    /\ result.status = "BLOCKED"
    /\ ~result.override_required
    /\ shell_calls = 0

\* C9 as stated: a command that matches a deny_pattern is blocked even when
\* fatigue is low: check_command does not allow it and execute_command
\* without an override reason returns BLOCKED.
C9_DenyPatternAlwaysBlocks ==
    result.command \in DeniedCommands[config] =>
        /\ result.op = "check_command" => ~result.allowed
        /\ (result.op = "execute_command" /\ ~Truthy(result.argument)) =>
               result.status = "BLOCKED"

\* C10: when execute_command blocks (gated command, no override reason) it
\* appends exactly one audit entry, of kind command_blocked with outcome
\* 'blocked', does not invoke the shell, and returns status BLOCKED with the
\* literal instruction 'OVERRIDE SAFETY PROTOCOL: [reason]' and
\* override_required true.
C10_BlockIsLogged ==
    [][(ExecuteStep /\ Gated(result') /\ result'.argument = None)
       => /\ Len(entries') = Len(entries) + 1
          /\ SubSeq(entries', 1, Len(entries)) = entries
          /\ entries'[Len(entries')].event = "command_blocked"
          /\ entries'[Len(entries')].outcome = "blocked"
          /\ entries'[Len(entries')].command = result'.command
          /\ shell_calls' = shell_calls
          /\ result'.status = "BLOCKED"
          /\ result'.message = BLOCKED_INSTRUCTION
          /\ result'.override_required]_vars

\* execute_command has blocked a gated command and logged it
C10_Witness ==
    /\ result.op = "execute_command"
    /\ Gated(result)
    /\ result.argument = None
    /\ result.status = "BLOCKED"
    /\ result.message = BLOCKED_INSTRUCTION
    /\ result.override_required
    /\ Len(entries) > 0
    /\ entries[Len(entries)].event = "command_blocked"
    /\ entries[Len(entries)].outcome = "blocked"
    /\ shell_calls = 0

C12_FailuresAreTerminal ==
    [][ExecuteStep
       => /\ shell_calls' \in {shell_calls, shell_calls + 1}
          /\ (shell_calls' = shell_calls) <=> (result'.subprocess = "none")
          /\ result'.subprocess # "none" => config.execution_mode = "live"
          /\ (result'.status = "EXECUTED") <=> (result'.subprocess = "ok")
          /\ (result'.status = "TIMEOUT") <=> (result'.subprocess = "timeout")
          /\ (result'.status = "ERROR") <=> (result'.subprocess = "error")
          /\ result'.status = "TIMEOUT" =>
                 result'.error = "Command timed out after 30 seconds"
          /\ result'.status = "ERROR" => result'.error = "str(e)"]_vars

\* a live command timed out: one invocation, status TIMEOUT
C12_Witness ==
    /\ config.execution_mode = "live"
    /\ result.op = "execute_command"
    /\ result.subprocess = "timeout"
    /\ result.status = "TIMEOUT"
    /\ shell_calls = 1

\* a step of log_event
LogEventStep ==
    /\ result'.op = "log_event"
    /\ <<result, entries>>' # <<result, entries>>

\* C13: after any sequence of log_event calls the audit log holds at most
\* 1000 entries, and they are the most recently logged ones in their logging
\* order: a log_event call puts its entry last and keeps the entries before
\* it, except that on a log of 1000 entries the first (oldest) entry, and no
\* other, is evicted.
C13_AuditCap ==
    /\ [](Len(entries) <= MAX_ENTRIES)
    /\ [][LogEventStep
          => /\ entries'[Len(entries')].timestamp = now
             /\ IF Len(entries) < MAX_ENTRIES
                THEN /\ Len(entries') = Len(entries) + 1
                     /\ SubSeq(entries', 1, Len(entries)) = entries
                ELSE /\ Len(entries') = MAX_ENTRIES
                     /\ SubSeq(entries', 1, MAX_ENTRIES - 1) = Tail(entries)]_vars

\* entry number 1001 was logged: the log holds 1000 entries, the first of
\* which is the second entry of the loaded log
C13_Witness ==
    /\ Len(entries) = MAX_ENTRIES
    /\ entries[1] = stored_entry(2)
    /\ entries[MAX_ENTRIES - 1] = stored_entry(MAX_ENTRIES)
    /\ entries[MAX_ENTRIES].timestamp >= StartTime

\* C14: overrides are never deduplicated. When the last audit entry is a
\* safety_override of a command and reason, and the command is still blocked,
\* another execute_command call with the same command and reason appends one
\* more safety_override entry, with that reason, the fatigue snapshot of the
\* new call and a timestamp not earlier than the last entry's; and every
\* overriding call that happens grows the log by exactly one such entry.
C14_OverridesNotDeduplicated ==
    /\ [](\A outcome \in SubprocessOutcomes :
            LET n    == Len(entries)
                last == entries[n]
                r    == execute_command(config, entries, now, last.command,
                                        last.override_reason, CurrentStatus,
                                        outcome, "none")
            IN  (/\ n > 0
                 /\ last.event = "safety_override"
                 /\ should_block(config, last.command, CurrentStatus.fatigue_level))
                => /\ Len(r.entries) = n + 1
                   /\ SubSeq(r.entries, 1, n) = entries
                   /\ r.entries[n + 1].event = "safety_override"
                   /\ r.entries[n + 1].command = last.command
                   /\ r.entries[n + 1].override_reason = last.override_reason
                   /\ r.entries[n + 1].fatigue_level = CurrentStatus.fatigue_level
                   /\ r.entries[n + 1].uptime_hours = CurrentStatus.uptime_hours
                   /\ r.entries[n + 1].timestamp = now
                   /\ r.entries[n + 1].timestamp >= last.timestamp)
    /\ [][(ExecuteStep /\ Gated(result') /\ Truthy(result'.argument))
          => /\ Len(entries') = Len(entries) + 1
             /\ SubSeq(entries', 1, Len(entries)) = entries
             /\ entries'[Len(entries')].event = "safety_override"
             /\ entries'[Len(entries')].override_reason = result'.argument
             /\ entries'[Len(entries')].fatigue_level = result'.fatigue_level]_vars

\* two overrides of one blocked command with one reason, logged as two entries
C14_Witness ==
    /\ Len(entries) = 2
    /\ entries[1].event = "safety_override"
    /\ entries[2].event = "safety_override"
    /\ entries[1].command = entries[2].command
    /\ entries[1].override_reason = entries[2].override_reason
    /\ entries[2].timestamp >= entries[1].timestamp
    /\ result.op = "execute_command"
    /\ result.argument = entries[2].override_reason

\* C15: a webhook failure never affects the decision. With a webhook URL
\* configured and the POST raising or timing out, log_event still appends the
\* entry and returns it without raising, and execute_command leaves the
\* audit log and returns the result it leaves and returns with no webhook
\* configured (and so also when the delivery succeeds).
C15_WebhookFailureIsHarmless ==
    [][/\ LogEventStep
          => /\ ~result'.raised
             /\ Len(entries') = Len(entries) + 1
             /\ SubSeq(entries', 1, Len(entries)) = entries
             /\ result'.entry = Some(entries'[Len(entries')])
       /\ ExecuteStep
          => /\ ~result'.raised
             /\ \E outcome \in SubprocessOutcomes :
                    LET r == execute_command([config EXCEPT !.webhook_url = None],
                                             entries, now, result'.command,
                                             result'.argument, CurrentStatus,
                                             outcome, "none")
                    IN  /\ entries' = r.entries
                        /\ [result' EXCEPT !.delivery = "none"]
                              = [r.ret EXCEPT !.argument = result'.argument,
                                              !.subprocess = IF r.invoked THEN outcome
                                                             ELSE "none"]]_vars

\* an override went through although the POST of its safety_override event
\* timed out
C15_Witness ==
    /\ Truthy(config.webhook_url)
    /\ result.op = "execute_command"
    /\ result.delivery = "timeout"
    /\ result.status = "SIMULATED"
    /\ Len(entries) > 0
    /\ entries[Len(entries)].event = "safety_override"

\* C16: record_activity is debounced. A call appends a heartbeat (with the
\* clock as its timestamp) only when the log is empty or at least 60 seconds
\* have passed since the last heartbeat, and otherwise leaves the log
\* unchanged; so consecutive heartbeats of the log are at least 60 seconds
\* apart.
C16_Debounce ==
    /\ [](LET n     == Len(heartbeats)
              after == record_activity(heartbeats, now, "keyboard")
          IN  IF n = 0 \/ now - heartbeats[n].timestamp >= 60
              THEN /\ Len(after) > 0
                   /\ after[Len(after)] = [timestamp |-> now, source |-> "keyboard"]
                   /\ \A i \in 1..(Len(after) - 1) :
                          \E j \in 1..n : after[i] = heartbeats[j]
              ELSE after = heartbeats)
    /\ [](\A i \in 2..Len(heartbeats) :
              heartbeats[i].timestamp - heartbeats[i - 1].timestamp >= 60)
    /\ [][heartbeats' # heartbeats
          => /\ Len(heartbeats) = 0 \/ now - heartbeats[Len(heartbeats)].timestamp >= 60
             /\ heartbeats'[Len(heartbeats')].timestamp = now]_vars

\* two heartbeats recorded exactly 60 seconds apart, and the clock 59 seconds
\* after the second: a call now is skipped
C16_Witness ==
    /\ Len(heartbeats) >= 2
    /\ heartbeats[Len(heartbeats)].timestamp
         - heartbeats[Len(heartbeats) - 1].timestamp = 60
    /\ now - heartbeats[Len(heartbeats)].timestamp = 59
    /\ record_activity(heartbeats, now, "keyboard") = heartbeats

\* C17: retention. A record_activity call that records persists the log,
\* and the persist first drops the heartbeats older than 24 hours: after the
\* call every heartbeat of the log has a timestamp within the last 24 hours
\* (the new one included), and no heartbeat newer than 24 hours was dropped.
C17_Retention ==
    [][heartbeats' # heartbeats
       => /\ \A i \in 1..Len(heartbeats') :
                 /\ heartbeats'[i].timestamp > now - 24 * 3600
                 /\ heartbeats'[i].timestamp <= now
          /\ \A j \in 1..Len(heartbeats) :
                 heartbeats[j].timestamp > now - 24 * 3600
                 => \E i \in 1..Len(heartbeats') : heartbeats'[i] = heartbeats[j]
          /\ \E i \in 1..Len(heartbeats') : heartbeats'[i].timestamp = now]_vars

\* a recording call at 24 hours and a minute has left only heartbeats of the
\* last 24 hours: the log starts with the one recorded an hour after
\* StartTime, and neither the heartbeat of time 0 nor one recorded at
\* StartTime is in it
C17_Witness ==
    /\ now = HISTORY_HOURS * 3600 + 60
    /\ Len(heartbeats) >= 2
    /\ heartbeats[1].timestamp = StartTime + 3600
    /\ heartbeats[Len(heartbeats)].timestamp = now
    /\ cleanup_old_heartbeats(heartbeats, now) = heartbeats

\* C18: uptime is bounded by the 24-hour window. In every state reached by
\* loading the log, recording activity and letting time pass,
\* get_cognitive_uptime_hours is between 0 and 24 (here in seconds), and the
\* epoch start it measures from is not older than 24 hours.
C18_UptimeWithinWindow ==
    /\ get_cognitive_uptime_seconds(heartbeats, now) >= 0
    /\ get_cognitive_uptime_seconds(heartbeats, now) <= 24 * 3600

\* C19 as stated: after heartbeats at minutes 0, 1, 2, 3 and then at minute
\* 70, the uptime is 0 at minute 70 and is d at minute 70 + d, for every d,
\* while further heartbeats come less than 60 minutes apart.
C19_UptimeIsTimeSinceBreak ==
    get_cognitive_uptime_seconds(heartbeats, now) = now - BreakEnd

\* C19, amended: the uptime is 0 at minute 70 and d at minute 70 + d as long
\* as the heartbeat of minute 70 is retained, which it is for every d below
\* 24 hours; once a heartbeat is recorded 24 hours or more after it, it is
\* dropped and the uptime is measured from the earliest retained heartbeat.
C19_UptimeSinceRetainedBreak ==
    LET uptime == get_cognitive_uptime_seconds(heartbeats, now)
    IN  /\ now = BreakEnd => uptime = 0
        /\ now - BreakEnd < HISTORY_HOURS * 3600
           => \E i \in 1..Len(heartbeats) : heartbeats[i].timestamp = BreakEnd
        /\ IF \E i \in 1..Len(heartbeats) : heartbeats[i].timestamp = BreakEnd
           THEN uptime = now - BreakEnd
           ELSE /\ uptime = now - heartbeats[1].timestamp
                /\ uptime < now - BreakEnd

\* 23 and a half hours after the break the heartbeat of minute 70 is the
\* earliest of the log and the uptime is 23.5 hours
C19_Witness ==
    /\ now = BreakEnd + 47 * 1800
    /\ heartbeats[1].timestamp = BreakEnd
    /\ heartbeats[Len(heartbeats)].timestamp = now
    /\ get_cognitive_uptime_seconds(heartbeats, now) = 47 * 1800

\* the exact value of the formula of get_fatigue_level, uptime/12*60 +
\* stress*40 truncated and clamped, with uptime in seconds and stress in
\* thousandths (uptime/720 + stress/25, over the common denominator 18000)
fatigue_level_exact(uptime_seconds, current_stress) ==
    LET total == (Min(60 * 18000, 25 * uptime_seconds) + 720 * current_stress)
                     \div 18000
    IN  Min(100, Max(0, total))

\* C20: get_fatigue_level equals clamp(trunc(min(60, uptime_hours/12*60) +
\* current_stress*40), 0, 100) for every uptime >= 0 and stress in [0, 1]; it
\* is an integer in 0..100, and it is 60 at (12 h, 0.0), 40 at (0 h, 1.0) and
\* 100 at (12 h, 1.0).
C20_FatigueFormula ==
    result.op = "get_fatigue_level"
    => /\ result.fatigue_level
            = fatigue_level_exact(result.uptime_seconds, result.current_stress)
       /\ result.fatigue_level \in 0..100
       /\ (result.uptime_seconds = 12 * 3600 /\ result.current_stress = 0)
          => result.fatigue_level = 60
       /\ (result.uptime_seconds = 0 /\ result.current_stress = 1000)
          => result.fatigue_level = 40
       /\ (result.uptime_seconds = 12 * 3600 /\ result.current_stress = 1000)
          => result.fatigue_level = 100

C29_WindowHasNoBreak ==
    LET n     == Len(heartbeats)
        epoch == now - get_cognitive_uptime_seconds(heartbeats, now)
    IN  n > 0
        => /\ \A i \in 2..n :
                  heartbeats[i - 1].timestamp >= epoch
                  => heartbeats[i].timestamp - heartbeats[i - 1].timestamp < 60 * 60
           /\ now - heartbeats[n].timestamp < 60 * 60

\* C28: the audit trail is truthful about outcomes. Every execute_command
\* call that writes an audit entry writes an outcome that agrees with the
\* result it returns: 'executed' only with status EXECUTED, 'simulated' only
\* with SIMULATED and 'blocked' only with BLOCKED.
C28_OutcomeMatchesResult ==
    [][(ExecuteStep /\ entries' # entries)
       => LET outcome == entries'[Len(entries')].outcome
          IN  /\ outcome = "executed" => result'.status = "EXECUTED"
              /\ outcome = "simulated" => result'.status = "SIMULATED"
              /\ outcome = "blocked" => result'.status = "BLOCKED"]_vars

\* C24: get_average_metrics(minutes=N) aggregates exactly the results stored
\* within the trailing N minutes: sample_count counts the rows stored less
\* than N minutes before the call, and with no such row the neutral defaults
\* (stress_level 0.0, sample_count 0) are returned. Stated for the window of
\* five minutes the interlock asks for.
C24_TrailingWindowOnly ==
    LET metrics == get_average_metrics(db, now, 5)
        recent  == SelectSeq(db, LAMBDA r : r.timestamp > now - 5 * 60)
    IN  /\ metrics.sample_count = Len(recent)
        /\ metrics.stress_level = IF recent = <<>> THEN 0
                                  ELSE (2 * sum_stress(recent) + Len(recent)) \div (2 * Len(recent))

----------------------------------------------------------------------------
(* Loading the logs from disk: activity_tracker.py and audit.py *)

\* What json.load makes of a log file. `type` is the JSON type of the text
\* ("invalid" when the text is not JSON), `keys` the keys of a top-level
\* object, `list` the value under the log's key: its JSON type and, for an
\* array, its items. An item has a JSON type, the keys of an object, and the
\* values under 'timestamp' and 'source'. A value is its JSON type and text.
JString(text) == [type |-> "string", value |-> text]

JNumber(text) == [type |-> "number", value |-> text]

JItem(type, keys, timestamp, source) ==
    [type |-> type, keys |-> keys, timestamp |-> timestamp, source |-> source]

JFile(type, keys, list_type, items) ==
    [type |-> type, keys |-> keys, list |-> [type |-> list_type, items |-> items]]

WellFormedItem ==
    JItem("object", {"timestamp", "source"},
          JString("1970-01-01T00:00:00"), JString("keyboard"))

\* the records a corrupted log can hold: a field missing, a field too many,
\* a field of the wrong type, a number where a record should be
CorruptItems ==
    {JItem("object", {"timestamp"}, JString("1970-01-01T00:00:00"), JString("")),
     JItem("object", {"timestamp", "source", "host"},
           JString("1970-01-01T00:00:00"), JString("keyboard")),
     JItem("object", {"timestamp", "source"}, JNumber("5"), JString("keyboard")),
     JItem("number", {}, JString(""), JString(""))}

\* The file of a log kept under `key`: absent, well formed, or corrupted
LogFiles(key) ==
    {None}
    \cup {Some(JFile("object", {key}, "array", items)) :
              items \in {<<>>, <<WellFormedItem>>}}
    \cup {Some(JFile("invalid", {}, "array", <<>>)),
          Some(JFile("array", {}, "array", <<>>)),
          Some(JFile("number", {}, "array", <<>>)),
          Some(JFile("object", {}, "array", <<>>)),
          Some(JFile("object", {"version"}, "array", <<>>)),
          Some(JFile("object", {key}, "number", <<>>))}
    \cup {Some(JFile("object", {key}, "array", <<item>>)) : item \in CorruptItems}
    \cup {Some(JFile("object", {key}, "array", <<WellFormedItem, item>>)) :
              item \in CorruptItems}

\* a loader's outcome: the log it leaves in memory, and the exception that
\* leaves the constructor, if any
Loaded(log) == [log |-> log, raises |-> None]

LoadRaises(exception) == [log |-> <<>>, raises |-> Some(exception)]

\* ActivityHeartbeat(**hb) of the dataclass: a TypeError unless hb is a
\* mapping with exactly the keys timestamp and source; the values are taken
\* as they are
heartbeat_constructible(hb) ==
    /\ hb.type = "object"
    /\ hb.keys = {"timestamp", "source"}

\* ActivityTracker._load_heartbeats; only JSONDecodeError and KeyError are
\* caught
load_heartbeats(file) ==
    IF file = None THEN Loaded(<<>>)
    ELSE LET data == CHOOSE d \in file : TRUE
         IN  IF data.type = "invalid" THEN Loaded(<<>>)
             ELSE IF data.type # "object" THEN LoadRaises("AttributeError")
             ELSE IF "heartbeats" \notin data.keys THEN Loaded(<<>>)
             ELSE IF data.list.type # "array" THEN LoadRaises("TypeError")
             ELSE IF \E i \in 1..Len(data.list.items) :
                         ~heartbeat_constructible(data.list.items[i])
             THEN LoadRaises("TypeError")
             ELSE Loaded([i \in 1..Len(data.list.items) |->
                            [timestamp |-> data.list.items[i].timestamp,
                             source    |-> data.list.items[i].source]])

\* AuditLogger._load_entries: the value under 'entries' is kept as it is
load_entries(file) ==
    IF file = None THEN Loaded(<<>>)
    ELSE LET data == CHOOSE d \in file : TRUE
         IN  IF data.type = "invalid" THEN Loaded(<<>>)
             ELSE IF data.type # "object" THEN LoadRaises("AttributeError")
             ELSE IF "entries" \notin data.keys THEN Loaded(<<>>)
             ELSE Loaded(data.list)

\* ActivityTracker.__init__ with `file` at get_activity_path()
LoadHeartbeats(file) ==
    LET loaded == load_heartbeats(file)
    IN  /\ heartbeats' = loaded.log
        /\ result' = [NoResult EXCEPT
                          !.op = "load_heartbeats",
                          !.argument = file,
                          !.raised = (loaded.raises # None),
                          !.error = IF loaded.raises = None THEN ""
                                    ELSE CHOOSE e \in loaded.raises : TRUE]
        /\ UNCHANGED <<config, now, db, entries, pending_override_reason, shell_calls>>
        /\ UNCHANGED daemon

\* AuditLogger.__init__ with `file` at get_audit_path()
LoadEntries(file) ==
    LET loaded == load_entries(file)
    IN  /\ entries' = loaded.log
        /\ result' = [NoResult EXCEPT
                          !.op = "load_entries",
                          !.argument = file,
                          !.raised = (loaded.raises # None),
                          !.error = IF loaded.raises = None THEN ""
                                    ELSE CHOOSE e \in loaded.raises : TRUE]
        /\ UNCHANGED <<config, now, db, heartbeats, pending_override_reason, shell_calls>>
        /\ UNCHANGED daemon

\* Constructing the tracker and the audit logger over any file
InitLoad ==
    /\ config \in {cfg \in SessionConfigs : cfg.execution_mode = "dry_run"}
    /\ now = StartTime
    /\ heartbeats = <<>>
    /\ db = <<>>
    /\ entries = <<>>
    /\ pending_override_reason = None
    /\ shell_calls = 0
    /\ result = NoResult
    /\ InitDaemon

NextLoad ==
    \/ \E file \in LogFiles("heartbeats") : LoadHeartbeats(file)
    \/ \E file \in LogFiles("entries") : LoadEntries(file)

SpecLoad == InitLoad /\ [][NextLoad]_vars

\* the file is there and is not the text a save writes: an object with the
\* log's key over an array of records with the fields of the dataclass
corrupted(file, key) ==
    \E data \in file :
        ~ /\ data.type = "object"
          /\ key \in data.keys
          /\ data.list.type = "array"
          /\ \A i \in 1..Len(data.list.items) : data.list.items[i] = WellFormedItem

\* C21: over a corrupted heartbeat file or audit file (invalid JSON, valid
\* JSON that is not an object, an object with missing keys, records with
\* missing, extra or wrongly typed fields) constructing ActivityTracker or
\* AuditLogger completes without raising and starts from an empty log.
C21_CorruptFileLoadsEmpty ==
    /\ [][(result'.op = "load_heartbeats" /\ corrupted(result'.argument, "heartbeats"))
          => (~result'.raised /\ heartbeats' = <<>>)]_vars
    /\ [][(result'.op = "load_entries" /\ corrupted(result'.argument, "entries"))
          => (~result'.raised /\ entries' = <<>>)]_vars

----------------------------------------------------------------------------
(* analyzer.py *)

\* A SignalSnapshot is [timestamp, interval_ms, is_backspace, is_modifier],
\* both times in milliseconds. Scores (stress, focus, cognitive load,
\* confidence) are in hundredths and typing_wpm in tenths; backspace_ratio (in
\* per cent) and rhythm_variance are exact fractions [num, den], which compare
\* with the thresholds as the doubles of the code do; idle_seconds is in
\* seconds.
Fraction(num, den) == [num |-> num, den |-> den]

above(fraction, threshold) == fraction.num > threshold * fraction.den

below(fraction, threshold) == fraction.num < threshold * fraction.den

\* round(num / den, 0) of Python: to nearest, ties to even
round_half_even(num, den) ==
    LET q == num \div den
        r == num % den
    IN  IF 2 * r > den \/ (2 * r = den /\ q % 2 = 1) THEN q + 1 ELSE q

\* SignalAnalyzer._calculate_wpm, in tenths: round(wpm, 1)
calculate_wpm(signals) ==
    IF Len(signals) < 2 THEN 0
    ELSE LET time_span == signals[Len(signals)].timestamp - signals[1].timestamp
         IN  IF time_span <= 0 THEN 0
             ELSE round_half_even(10 * 60 * 1000 * Len(signals), 5 * time_span)

\* SignalAnalyzer._calculate_backspace_ratio, in per cent
calculate_backspace_ratio(signals) ==
    IF signals = <<>> THEN Fraction(0, 1)
    ELSE Fraction(100 * Len(SelectSeq(signals, LAMBDA s : s.is_backspace)),
                  Len(signals))

RECURSIVE sum_intervals(_, _)
sum_intervals(signals, power) ==
    IF signals = <<>> THEN 0
    ELSE (IF power = 2 THEN Head(signals).interval_ms * Head(signals).interval_ms
          ELSE Head(signals).interval_ms)
         + sum_intervals(Tail(signals), power)

\* SignalAnalyzer._calculate_rhythm_variance: statistics.variance, the sample
\* variance, of the intervals strictly between 0 and 2000 ms
calculate_rhythm_variance(signals) ==
    LET intervals == SelectSeq(signals, LAMBDA s : s.interval_ms > 0 /\ s.interval_ms < 2000)
        n         == Len(intervals)
    IN  IF n < 2 THEN Fraction(0, 1)
        ELSE Fraction(n * sum_intervals(intervals, 2)
                        - sum_intervals(intervals, 1) * sum_intervals(intervals, 1),
                      n * (n - 1))

\* SignalAnalyzer._calculate_stress
calculate_stress(wpm, backspace_ratio, variance) ==
    Min((IF wpm > 800 THEN 35 ELSE IF wpm > 600 THEN 15 ELSE 0)
        + (IF above(backspace_ratio, 15) THEN 35
           ELSE IF above(backspace_ratio, 10) THEN 15 ELSE 0)
        + (IF above(variance, 10000) THEN 30
           ELSE IF above(variance, 5000) THEN 15 ELSE 0),
        100)

\* SignalAnalyzer._calculate_focus
calculate_focus(signals, variance, idle_seconds) ==
    LET sustained ==
            IF /\ Len(signals) >= 50
               /\ signals[Len(signals)].timestamp - signals[1].timestamp > 30 * 1000
            THEN 25 ELSE 0
        flow == IF below(variance, 3000) THEN 25
                ELSE IF below(variance, 5000) THEN 10 ELSE 0
        idle == IF idle_seconds > 60 THEN 30
                ELSE IF idle_seconds > 30 THEN 15
                ELSE IF idle_seconds > 5 THEN 5 ELSE 0
    IN  Max(0, Min(50 + sustained + flow - idle, 100))

\* SignalAnalyzer._calculate_cognitive_load
calculate_cognitive_load(wpm, backspace_ratio, variance) ==
    Min(30
        + (IF wpm > 700 /\ above(backspace_ratio, 12) THEN 35 ELSE 0)
        + (IF above(variance, 8000) THEN 25 ELSE 0)
        + (IF wpm > 900 /\ above(backspace_ratio, 18) THEN 20 ELSE 0),
        100)

\* _determine_state with the DEBUGGING rule tried before the ADRENALINE rule
determine_state_debugging_first(stress, focus, cognitive_load, wpm, backspace_ratio, idle_seconds) ==
    IF idle_seconds > 120 THEN "relaxed"
    ELSE IF stress > 70 /\ cognitive_load > 60 THEN "debugging"
    ELSE IF wpm > 900 /\ below(backspace_ratio, 5) /\ focus > 70 THEN "adrenaline"
    ELSE IF cognitive_load > 80 /\ above(backspace_ratio, 15) THEN "fatigued"
    ELSE IF stress > 60 THEN "stressed"
    ELSE IF focus > 70 /\ stress < 40 THEN "focused"
    ELSE IF focus > 40 THEN "working"
    ELSE "relaxed"

\* SignalAnalyzer._determine_state: the value of the UserState returned
determine_state(stress, focus, cognitive_load, wpm, backspace_ratio, idle_seconds) ==
    IF idle_seconds > 120 THEN "relaxed"
    ELSE IF wpm > 900 /\ below(backspace_ratio, 5) /\ focus > 70 THEN "adrenaline"
    ELSE IF cognitive_load > 80 /\ above(backspace_ratio, 15) THEN "fatigued"
    ELSE IF stress > 70 /\ cognitive_load > 60 THEN "debugging"
    ELSE IF stress > 60 THEN "stressed"
    ELSE IF focus > 70 /\ stress < 40 THEN "focused"
    ELSE IF focus > 40 THEN "working"
    ELSE "relaxed"

\* SignalAnalyzer._generate_recommendations: <<response_style,
\* avoid_clarifying_questions, interruptible>>
generate_recommendations(state) ==
    IF state = "adrenaline" THEN <<"concise_command_mode", TRUE, FALSE>>
    ELSE IF state = "fatigued" THEN <<"protective", TRUE, FALSE>>
    ELSE IF state \in {"debugging", "stressed"} THEN <<"concise", TRUE, FALSE>>
    ELSE IF state = "focused" THEN <<"detailed", FALSE, FALSE>>
    ELSE IF state = "working" THEN <<"detailed", FALSE, TRUE>>
    ELSE <<"friendly", FALSE, TRUE>>

AnalysisResult(stress_level, focus_level, cognitive_load, state, confidence, typing_wpm, backspace_ratio, rhythm_variance, idle_seconds) ==
    [stress_level               |-> stress_level,
     focus_level                |-> focus_level,
     cognitive_load             |-> cognitive_load,
     state                      |-> state,
     confidence                 |-> confidence,
     response_style             |-> generate_recommendations(state)[1],
     avoid_clarifying_questions |-> generate_recommendations(state)[2],
     interruptible              |-> generate_recommendations(state)[3],
     typing_wpm                 |-> typing_wpm,
     backspace_ratio            |-> backspace_ratio,
     rhythm_variance            |-> rhythm_variance,
     idle_seconds               |-> idle_seconds]

\* SignalAnalyzer._create_default_result
create_default_result(confidence, idle_seconds) ==
    AnalysisResult(0, 50, 30, "relaxed", confidence, 0, Fraction(0, 1), Fraction(0, 1),
                   idle_seconds)

\* the scoring of analyze, for a window of any length
score(signals, idle_seconds) ==
    LET typing_wpm      == calculate_wpm(signals)
        backspace_ratio == calculate_backspace_ratio(signals)
        rhythm_variance == calculate_rhythm_variance(signals)
        stress_level    == calculate_stress(typing_wpm, backspace_ratio, rhythm_variance)
        focus_level     == calculate_focus(signals, rhythm_variance, idle_seconds)
        cognitive_load  == calculate_cognitive_load(typing_wpm, backspace_ratio,
                                                    rhythm_variance)
    IN  AnalysisResult(stress_level, focus_level, cognitive_load,
                       determine_state(stress_level, focus_level, cognitive_load,
                                       typing_wpm, backspace_ratio, idle_seconds),
                       Min(Len(signals), 100),
                       typing_wpm, backspace_ratio, rhythm_variance, idle_seconds)

\* analyze scoring a window of fewer than 10 signals as any other
analyze_scoring_short_windows(signals, idle_seconds) == score(signals, idle_seconds)

\* SignalAnalyzer.analyze: the result returned
analyze(signals, idle_seconds) ==
    IF Len(signals) < 10 THEN create_default_result(10, idle_seconds)
    ELSE score(signals, idle_seconds)

\* the history keeping its oldest results once it holds 100
store_in_history_keeping_oldest(history, signals, analysis) ==
    IF Len(signals) < 10 THEN history
    ELSE IF Len(history) + 1 > 100 THEN history
    ELSE Append(history, analysis)

\* SignalAnalyzer.analyze: what it leaves in analysis_history
store_in_history(history, signals, analysis) ==
    IF Len(signals) < 10 THEN history
    ELSE IF Len(history) + 1 > 100 THEN Tail(Append(history, analysis))
    ELSE Append(history, analysis)

\* the key presses the model feeds the analyzer: n signals `gap` ms apart, every
\* second one `swing` ms late, the first `backspaces` of them backspaces
Window(n, gap, swing, backspaces) ==
    [i \in 1..n |->
        [timestamp    |-> i * gap + (IF i % 2 = 0 THEN swing ELSE 0),
         interval_ms  |-> IF i = 1 THEN 0
                          ELSE IF i % 2 = 0 THEN gap + swing ELSE gap - swing,
         is_backspace |-> i <= backspaces,
         is_modifier  |-> FALSE]]

\* windows below and above the minimum of 10 signals: slow and steady, fast
\* and clean, erratic with corrections, and long enough to be sustained typing
Windows ==
    {Window(0, 100, 0, 0), Window(1, 100, 0, 0), Window(9, 100, 0, 1),
     Window(10, 250, 0, 0), Window(20, 100, 0, 0), Window(20, 200, 150, 4),
     Window(20, 120, 110, 4), Window(20, 120, 110, 3), Window(50, 700, 0, 0)}

IdleSeconds == {0, 45, 121}

\* the number of analyze calls the model makes
MaxAnalyses == 2

\* the result number i of the calls made before the model starts, each after
\* an idle period of more than 1000 seconds
earlier_result(i) == analyze(Window(10, 250, 0, 0), 1000 + i)

\* analysis_history after no call, and after 99 and 100 calls
EarlierHistories ==
    {[i \in 1..n |-> earlier_result(i)] : n \in {0, 99, 100}}

\* the results the model's calls have put in the history
analysed_since_start(history) ==
    Cardinality({i \in DOMAIN history : history[i].idle_seconds < 1000})

\* SignalAnalyzer.analyze(signals, idle_seconds)
Analyze(signals, idle_seconds) ==
    /\ analysed_since_start(analysis_history) < MaxAnalyses
    /\ analysis_history' = store_in_history(analysis_history, signals,
                                            analyze(signals, idle_seconds))
    /\ result' = [op           |-> "analyze",
                  signals      |-> signals,
                  idle_seconds |-> idle_seconds,
                  returned     |-> analyze(signals, idle_seconds)]
    /\ UNCHANGED <<config, now, heartbeats, db, entries, pending_override_reason,
                   shell_calls, collector, notifier, slack, last_state>>

\* The analyzer called on any window after any idle time
InitAnalyzer ==
    /\ config \in {cfg \in SessionConfigs : cfg.execution_mode = "dry_run"}
    /\ now = StartTime
    /\ heartbeats = <<>>
    /\ db = <<>>
    /\ entries = <<>>
    /\ pending_override_reason = None
    /\ shell_calls = 0
    /\ result = NoResult
    /\ analysis_history \in EarlierHistories
    /\ collector = NewCollector(TRUE)
    /\ last_state = None
    /\ notifier = [slack_user_token |-> None, last_state |-> None,
                   last_slack_status |-> None]
    /\ slack = [profile |-> None, failed |-> FALSE]

NextAnalyzer ==
    \E signals \in Windows, idle_seconds \in IdleSeconds : Analyze(signals, idle_seconds)

SpecAnalyzer == InitAnalyzer /\ [][NextAnalyzer]_vars

\* C22: for every window of fewer than 10 events, the empty one included,
\* and every idle_seconds, analyze returns confidence 0.1 and state RELAXED
\* with stress 0.0, focus 0.5 and cognitive_load 0.3.
C22_ShortWindowDefault ==
    (result.op = "analyze" /\ Len(result.signals) < 10)
    => /\ result.returned.confidence = 10
       /\ result.returned.state = "relaxed"
       /\ result.returned.stress_level = 0
       /\ result.returned.focus_level = 50
       /\ result.returned.cognitive_load = 30
       /\ result.returned.idle_seconds = result.idle_seconds

\* a window of 9 key presses, one a backspace, was analysed with no idle time
C22_Witness ==
    /\ result.op = "analyze"
    /\ result.signals = Window(9, 100, 0, 1)
    /\ result.idle_seconds = 0
    /\ result.returned.confidence = 10

\* C27: the history holds at most 100 results, the most recent results of the
\* calls with at least 10 events in call order: such a call puts its result
\* last and keeps the results before it, except that on a history of 100 the
\* first (oldest) is dropped; a call with fewer than 10 events leaves the
\* history unchanged.
C27_HistoryCap ==
    /\ [](Len(analysis_history) <= 100)
    /\ [][result'.op = "analyze"
          => IF Len(result'.signals) < 10
             THEN analysis_history' = analysis_history
             ELSE /\ analysis_history'[Len(analysis_history')] = result'.returned
                  /\ IF Len(analysis_history) < 100
                     THEN /\ Len(analysis_history') = Len(analysis_history) + 1
                          /\ SubSeq(analysis_history', 1, Len(analysis_history))
                               = analysis_history
                     ELSE /\ Len(analysis_history') = 100
                          /\ SubSeq(analysis_history', 1, 99)
                               = Tail(analysis_history)]_vars

\* result number 101 was appended: the history holds 100 results, the first
\* of which is the second of the earlier ones, and the last is the new result
C27_Witness ==
    /\ Len(analysis_history) = 100
    /\ analysis_history[1] = earlier_result(2)
    /\ result.op = "analyze"
    /\ Len(result.signals) >= 10
    /\ analysis_history[100] = result.returned
    /\ analysed_since_start(analysis_history) = 1

\* scores, typing speeds, backspace ratios and idle times on both sides of
\* every threshold of _determine_state
StateStress == {39, 40, 60, 61, 70, 71}

StateFocus == {40, 41, 70, 71}

StateLoads == {60, 61, 80, 81}

StateWpms == {900, 901}

StateBackspaceRatios == {Fraction(4, 1), Fraction(5, 1), Fraction(15, 1), Fraction(16, 1)}

StateIdleSeconds == {120, 121}

\* SignalAnalyzer._determine_state called on its own
DetermineState(stress, focus, cognitive_load, wpm, backspace_ratio, idle_seconds) ==
    /\ result' = [op              |-> "_determine_state",
                  stress          |-> stress,
                  focus           |-> focus,
                  cognitive_load  |-> cognitive_load,
                  wpm             |-> wpm,
                  backspace_ratio |-> backspace_ratio,
                  idle_seconds    |-> idle_seconds,
                  returned        |-> determine_state(stress, focus, cognitive_load, wpm,
                                                      backspace_ratio, idle_seconds)]
    /\ UNCHANGED <<config, now, heartbeats, db, entries, pending_override_reason,
                   shell_calls>>
    /\ UNCHANGED daemon

\* The state rules on any scores
InitState ==
    /\ config \in {cfg \in SessionConfigs : cfg.execution_mode = "dry_run"}
    /\ now = StartTime
    /\ heartbeats = <<>>
    /\ db = <<>>
    /\ entries = <<>>
    /\ pending_override_reason = None
    /\ shell_calls = 0
    /\ result = NoResult
    /\ InitDaemon

NextState ==
    \E stress \in StateStress, focus \in StateFocus, cognitive_load \in StateLoads,
       wpm \in StateWpms, backspace_ratio \in StateBackspaceRatios,
       idle_seconds \in StateIdleSeconds :
        DetermineState(stress, focus, cognitive_load, wpm, backspace_ratio, idle_seconds)

SpecState == InitState /\ [][NextState]_vars

\* the rules of the state determination in their order: the state of each
\* and whether it matches the arguments of the last call
StateRules ==
    <<[state |-> "relaxed",    matches |-> result.idle_seconds > 120],
      [state |-> "adrenaline", matches |-> /\ result.wpm > 900
                                           /\ below(result.backspace_ratio, 5)
                                           /\ result.focus > 70],
      [state |-> "fatigued",   matches |-> /\ result.cognitive_load > 80
                                           /\ above(result.backspace_ratio, 15)],
      [state |-> "debugging",  matches |-> result.stress > 70 /\ result.cognitive_load > 60],
      [state |-> "stressed",   matches |-> result.stress > 60],
      [state |-> "focused",    matches |-> result.focus > 70 /\ result.stress < 40],
      [state |-> "working",    matches |-> result.focus > 40],
      [state |-> "relaxed",    matches |-> TRUE]>>

\* C23: the state is that of the first rule that matches, in the order idle >
\* 120 s (RELAXED), ADRENALINE, FATIGUED, DEBUGGING, STRESSED, FOCUSED,
\* WORKING, else RELAXED; with idle <= 120, arguments that satisfy both the
\* ADRENALINE and the DEBUGGING condition give ADRENALINE.
C23_FirstMatchWins ==
    result.op = "_determine_state"
    => /\ \E i \in DOMAIN StateRules :
              /\ StateRules[i].matches
              /\ \A j \in 1..(i - 1) : ~StateRules[j].matches
              /\ result.returned = StateRules[i].state
       /\ (~StateRules[1].matches /\ StateRules[2].matches /\ StateRules[4].matches)
          => result.returned = "adrenaline"

\* _determine_state was called with idle 120 s on arguments that satisfy the
\* ADRENALINE condition (wpm 90.1, backspace ratio 0.04, focus 0.71) and the
\* DEBUGGING condition (stress 0.71, cognitive load 0.61)
C23_Witness ==
    /\ result.op = "_determine_state"
    /\ result.idle_seconds = 120
    /\ result.wpm = 901
    /\ result.backspace_ratio = Fraction(4, 1)
    /\ result.focus = 71
    /\ result.stress = 71
    /\ result.cognitive_load = 61
    /\ result.returned = "adrenaline"

----------------------------------------------------------------------------
(* notifications.py *)

SlackStatus(text, emoji) == [text |-> text, emoji |-> emoji]

\* NotificationManager.STATUS_MAP
STATUS_MAP ==
    [focused    |-> SlackStatus("Deep Focus", ":brain:"),
     adrenaline |-> SlackStatus("Handling Incident", ":rotating_light:"),
     fatigued   |-> SlackStatus("Low Battery", ":battery:"),
     stressed   |-> SlackStatus("Busy", ":warning:"),
     debugging  |-> SlackStatus("Debugging", ":bug:"),
     working    |-> SlackStatus("Working", ":computer:"),
     relaxed    |-> SlackStatus("", "")]

STATUS_EXPIRATION_SECONDS == 3600

\* what the POST to users.profile.set does: Slack applies it and answers ok,
\* Slack answers with an error, the request times out before it reaches
\* Slack, or it is applied and the reply is lost
SlackOutcomes == {"ok", "error", "timeout", "reply_lost"}

\* NotificationManager._set_slack_status: the profile after the call, whether
\* the call returned True, and the number of POSTs made
set_slack_status(n, profile, text, emoji, expiration, post) ==
    IF ~Truthy(n.slack_user_token)
    THEN [profile |-> profile, success |-> FALSE, posts |-> 0]
    ELSE [profile |-> IF post \in {"ok", "reply_lost"}
                      THEN Some([status_text       |-> text,
                                 status_emoji      |-> emoji,
                                 status_expiration |-> expiration])
                      ELSE profile,
          success |-> post = "ok",
          posts   |-> 1]

\* NotificationManager._update_slack_status: the notifier and the profile
\* after the call, what it returned and the number of POSTs made
update_slack_status(n, profile, state, t, post) ==
    IF state \in {"relaxed", "idle"}
    THEN [notifier |-> n] @@ set_slack_status(n, profile, "", "", 0, post)
    ELSE IF state \notin DOMAIN STATUS_MAP
    THEN [notifier |-> n, profile |-> profile, success |-> FALSE, posts |-> 0]
    ELSE IF Some(STATUS_MAP[state]) = n.last_slack_status
    THEN [notifier |-> n, profile |-> profile, success |-> TRUE, posts |-> 0]
    ELSE LET set == set_slack_status(n, profile, STATUS_MAP[state].text,
                                     STATUS_MAP[state].emoji,
                                     t + STATUS_EXPIRATION_SECONDS, post)
         IN  [notifier |-> IF set.success
                           THEN [n EXCEPT !.last_slack_status = Some(STATUS_MAP[state])]
                           ELSE n]
             @@ set

\* NotificationManager.update_state
update_state(n, profile, state, t, post) ==
    IF Some(state) = n.last_state
    THEN [notifier |-> n, profile |-> profile, success |-> FALSE, posts |-> 0]
    ELSE IF Truthy(n.slack_user_token)
    THEN update_slack_status([n EXCEPT !.last_state = Some(state)], profile, state, t, post)
    ELSE [notifier |-> [n EXCEPT !.last_state = Some(state)],
          profile |-> profile, success |-> FALSE, posts |-> 0]

\* the states the daemon passes on: the values of UserState
NotifiedStates ==
    {"relaxed", "working", "focused", "stressed", "debugging", "fatigued",
     "adrenaline"}

\* NotificationManager.update_state(state); `post` is what the POST does if
\* one is made
UpdateState(state) ==
    \E post \in SlackOutcomes :
        LET r == update_state(notifier, slack.profile, state, now, post)
        IN  /\ notifier' = r.notifier
            /\ slack' = [profile |-> r.profile,
                         failed  |-> slack.failed \/ (r.posts > 0 /\ post # "ok")]
            /\ result' = [op       |-> "update_state",
                          state    |-> state,
                          posts    |-> r.posts,
                          delivery |-> IF r.posts > 0 THEN post ELSE "none"]
            /\ UNCHANGED <<config, now, heartbeats, db, entries, pending_override_reason,
                           shell_calls, analysis_history, collector, last_state>>

\* The notifier with or without a Slack token
InitNotifier ==
    /\ config \in {cfg \in SessionConfigs : cfg.execution_mode = "dry_run"}
    /\ now = StartTime
    /\ heartbeats = <<>>
    /\ db = <<>>
    /\ entries = <<>>
    /\ pending_override_reason = None
    /\ shell_calls = 0
    /\ result = NoResult
    /\ analysis_history = <<>>
    /\ collector = NewCollector(TRUE)
    /\ last_state = None
    /\ notifier \in {[slack_user_token |-> token, last_state |-> None,
                       last_slack_status |-> None] :
                          token \in {None, Some(<<"x", "o", "x", "p">>)}}
    /\ slack = [profile |-> None, failed |-> FALSE]

NextNotifier ==
    \E state \in NotifiedStates : UpdateState(state)

SpecNotifier == InitNotifier /\ [][NextNotifier]_vars

\* C30: with a Slack token configured and every API call succeeding, after
\* any sequence of update_state calls the status last set on Slack is the
\* STATUS_MAP entry of the most recent state (cleared for 'relaxed'), also
\* when a state comes back after a 'relaxed' in between (focused, relaxed,
\* focused ends with 'Deep Focus' set).
C30_SlackShowsLatestState ==
    (/\ Truthy(notifier.slack_user_token)
     /\ ~slack.failed
     /\ notifier.last_state # None
     /\ \A state \in notifier.last_state : state \in DOMAIN STATUS_MAP)
    => \E state \in notifier.last_state, profile \in slack.profile :
           /\ profile.status_text = STATUS_MAP[state].text
           /\ profile.status_emoji = STATUS_MAP[state].emoji

----------------------------------------------------------------------------
(* collector.py and the daemon's callback, cli.py *)

\* SignalCollector.batch_size
batch_size == 20

\* the key presses the model delivers, and how many of the first may be
\* something other than a character key
MaxKeyPresses == 41

MaxVariedKeys == 1

Keys == {"a", "backspace", "shift"}

\* the test of _on_key_press with > for >=
batch_due_late(c) == c.batch_count > batch_size /\ c.on_signal_batch

\* _on_key_press: the test that triggers the batch analysis
batch_due(c) == c.batch_count >= batch_size /\ c.on_signal_batch

\* SignalCollector.get_idle_seconds, in seconds
get_idle_seconds(c, t) ==
    IF c.last_key_time = None THEN 0
    ELSE t - (CHOOSE last \in c.last_key_time : TRUE)

\* SignalCollector.start, called by HumsanaDaemon.start on the main thread:
\* the keyboard and mouse listener threads start
Start ==
    /\ ~collector.running
    /\ collector.key_presses = 0
    /\ collector' = [collector EXCEPT !.running = TRUE]
    /\ UNCHANGED <<config, now, heartbeats, db, entries, pending_override_reason,
                   shell_calls, result, analysis_history, notifier, slack, last_state>>

\* SignalCollector.stop, called by HumsanaDaemon.stop on the main thread: the
\* listeners take no further event; a handler that is running goes on
Stop ==
    /\ collector.running
    /\ collector' = [collector EXCEPT !.running = FALSE]
    /\ UNCHANGED <<config, now, heartbeats, db, entries, pending_override_reason,
                   shell_calls, result, analysis_history, notifier, slack, last_state>>

\* _on_mouse_click, on the mouse listener thread
MouseClick(pressed) ==
    /\ collector.running
    /\ collector' = IF pressed
                    THEN [collector EXCEPT !.last_key_time = Some(now)]
                    ELSE collector
    /\ UNCHANGED <<config, now, heartbeats, db, entries, pending_override_reason,
                   shell_calls, result, analysis_history, notifier, slack, last_state>>

\* _on_mouse_scroll, on the mouse listener thread
MouseScroll ==
    /\ collector.running
    /\ collector' = [collector EXCEPT !.last_key_time = Some(now)]
    /\ UNCHANGED <<config, now, heartbeats, db, entries, pending_override_reason,
                   shell_calls, result, analysis_history, notifier, slack, last_state>>

\* _on_key_press up to the signal it builds: the keyboard listener thread,
\* which handles one event at a time, takes a key press, reads the clock and
\* last_key_time and keeps the type of the key
KeyPress(key) ==
    /\ collector.running
    /\ collector.keyboard.pc = "idle"
    /\ collector.key_presses < MaxKeyPresses
    /\ collector.key_presses >= MaxVariedKeys => key = "a"
    /\ collector' = [collector EXCEPT
                         !.keyboard = [pc           |-> "store",
                                       now          |-> now,
                                       interval_ms  |-> get_idle_seconds(collector, now) * 1000,
                                       is_backspace |-> key = "backspace",
                                       is_modifier  |-> key = "shift"]]
    /\ UNCHANGED <<config, now, heartbeats, db, entries, pending_override_reason,
                   shell_calls, result, analysis_history, notifier, slack, last_state>>

\* _on_key_press from signals.append on: the signal goes into the deque of
\* at most 1000, last_key_time and batch_count are updated, and when the
\* batch is due the counter is reset and on_signal_batch is called
StoreSignal ==
    /\ collector.keyboard.pc = "store"
    /\ LET signal  == [timestamp    |-> collector.keyboard.now * 1000,
                       interval_ms  |-> collector.keyboard.interval_ms,
                       is_backspace |-> collector.keyboard.is_backspace,
                       is_modifier  |-> collector.keyboard.is_modifier]
           counted == [collector EXCEPT
                           !.signals = IF Len(@) = 1000 THEN Tail(Append(@, signal))
                                       ELSE Append(@, signal),
                           !.last_key_time = Some(collector.keyboard.now),
                           !.batch_count = @ + 1,
                           !.key_presses = @ + 1]
       IN  collector' = IF batch_due(counted)
                        THEN [counted EXCEPT !.batch_count = 0,
                                             !.keyboard.pc = "callback",
                                             !.callbacks = @ + 1,
                                             !.analysing = @ + 1]
                        ELSE [counted EXCEPT !.keyboard.pc = "idle"]
    /\ UNCHANGED <<config, now, heartbeats, db, entries, pending_override_reason,
                   shell_calls, result, analysis_history, notifier, slack, last_state>>

\* HumsanaDaemon._on_signals, running inside _on_key_press on the keyboard
\* listener thread: the analysis of all the signals collected, stored in the
\* database and passed to the notifier; then _on_key_press returns. `post` is
\* what the Slack POST does if one is made. No legacy webhook is configured.
OnSignals ==
    /\ collector.keyboard.pc = "callback"
    /\ \E post \in SlackOutcomes :
           LET analysis == analyze(collector.signals, get_idle_seconds(collector, now))
               updated  == update_state(notifier, slack.profile, analysis.state, now, post)
           IN  /\ analysis_history' = store_in_history(analysis_history, collector.signals,
                                                       analysis)
               /\ db' = Append(db, [timestamp    |-> now,
                                    stress_level |-> analysis.stress_level * 10])
               /\ notifier' = updated.notifier
               /\ slack' = [profile |-> updated.profile,
                            failed  |-> slack.failed \/ (updated.posts > 0 /\ post # "ok")]
               /\ last_state' = Some(analysis.state)
    /\ collector' = [collector EXCEPT !.keyboard.pc = "idle", !.analysing = @ - 1]
    /\ UNCHANGED <<config, heartbeats, now, entries, pending_override_reason,
                   shell_calls, result>>

\* the instants of the collector's run
CollectorInstants == {StartTime, StartTime + 1}

\* The daemon collecting: the main thread, the keyboard listener and the
\* mouse listener in any interleaving
InitCollector ==
    /\ config \in {cfg \in SessionConfigs : cfg.execution_mode = "dry_run"}
    /\ now = StartTime
    /\ heartbeats = <<>>
    /\ db = <<>>
    /\ entries = <<>>
    /\ pending_override_reason = None
    /\ shell_calls = 0
    /\ result = NoResult
    /\ analysis_history = <<>>
    /\ collector \in {NewCollector(on_signal_batch) : on_signal_batch \in BOOLEAN}
    /\ notifier = [slack_user_token |-> None, last_state |-> None,
                   last_slack_status |-> None]
    /\ slack = [profile |-> None, failed |-> FALSE]
    /\ last_state = None

NextCollector ==
    \/ \E t \in CollectorInstants : Tick(t)
    \/ Start
    \/ Stop
    \/ \E pressed \in BOOLEAN : MouseClick(pressed)
    \/ MouseScroll
    \/ \E key \in Keys : KeyPress(key)
    \/ StoreSignal
    \/ OnSignals

SpecCollector == InitCollector /\ [][NextCollector]_vars

============================================================================
